---- MODULE Spec2Model ----
(***************************************************************************)
(* Capability orchestration engine of the platform engine: the Context,   *)
(* the Registry, the Foundation Provisioner, the capability handlers and  *)
(* the phased run that drives them.                                       *)
(***************************************************************************)
EXTENDS Integers, Sequences, FiniteSets, TLC

\* ------------------------------------------------------------------------
\* Bounds of the model
\* ------------------------------------------------------------------------

\* largest number of keys in the raw spec of a run
MaxDeclared == 3

\* largest number of operations applied to a Context on its own
MaxOps == 3

\* largest number of registrations made on a registry on its own
MaxRegistrations == 2

\* largest number of resource-constructor calls of one step that succeed
\* before the resource layer raises (beyond it the step runs undisturbed)
MaxFuel == 2

\* ------------------------------------------------------------------------
\* Values
\* ------------------------------------------------------------------------

\* Every Python value held by the Context or passed to the resource layer is
\* a pair <<type, content>>, so that values of different Python types can be
\* compared: an object or string is named by a token, a list by its elements.

\* Python's None, the default of CapabilityContext.get
None == <<"none", <<>>>>

\* a resource object, one of its attributes (an Output) or a string
Obj(token) == <<"obj", <<token>>>>

\* a list of tokens
List(tokens) == <<"list", tokens>>

\* the boolean True
True == <<"bool", <<"True">>>>

\* Python truthiness: None and the empty list or dict are falsy
Truthy(v) == v # None /\ (v[1] \in {"list", "dict"} => v[2] # <<>>)

Range(s) == {s[i] : i \in DOMAIN s}

\* the empty mapping
EmptyMap == [k \in {} |-> None]

\* ------------------------------------------------------------------------
\* registry.py
\* ------------------------------------------------------------------------

FOUNDATION == 0
INFRASTRUCTURE == 1
COMPUTE == 2
NETWORKING == 3

Phase == {FOUNDATION, INFRASTRUCTURE, COMPUTE, NETWORKING}

\* an optional list argument: Omitted is Python's None default, Given(r) the list r
Omitted == <<>>
Given(r) == <<r>>

\* register that keeps the first registration of a name
register_keep_first(caps, name, phase, requires, fn) ==
    IF name \in DOMAIN caps THEN caps
    ELSE (name :> [handler |-> fn, phase |-> phase,
                   requires |-> IF requires = Omitted THEN <<>> ELSE requires[1]]) @@ caps

\* register that loses the requires list
register_m(caps, name, phase, requires, fn) ==
    (name :> [handler |-> fn, phase |-> phase, requires |-> <<>>]) @@ caps

\* register(name, phase, requires)(fn): CAPABILITIES[name] = CapabilityDef(...),
\* with requires or [] for the requires list
register(caps, name, phase, requires, fn) ==
    (name :> [handler |-> fn, phase |-> phase,
              requires |-> IF requires = Omitted THEN <<>> ELSE requires[1]]) @@ caps

\* a decorator that forgets to return the function
decorator_m(fn) == "None"

\* what the decorator made by register returns for the function it is given
decorator(fn) == fn

\* the registrations with s3 registered in the COMPUTE phase
Registrations_s3_compute ==
    << [name |-> "compute",          phase |-> COMPUTE,        requires |-> Omitted, fn |-> "compute_handler"],
       [name |-> "cache",            phase |-> INFRASTRUCTURE, requires |-> Omitted, fn |-> "cache_handler"],
       [name |-> "storage",          phase |-> INFRASTRUCTURE, requires |-> Omitted, fn |-> "storage_handler"],
       [name |-> "database",         phase |-> INFRASTRUCTURE, requires |-> Omitted, fn |-> "database_handler"],
       [name |-> "dynamodb",         phase |-> INFRASTRUCTURE, requires |-> Omitted, fn |-> "dynamodb_handler"],
       [name |-> "s3",               phase |-> COMPUTE,        requires |-> Omitted, fn |-> "s3_handler"],
       [name |-> "serviceDiscovery", phase |-> INFRASTRUCTURE, requires |-> Omitted, fn |-> "service_discovery_handler"],
       [name |-> "lambda",           phase |-> COMPUTE,        requires |-> Given(<<"storage">>), fn |-> "lambda_handler"],
       [name |-> "agentcoreRuntime", phase |-> COMPUTE,        requires |-> Omitted, fn |-> "agentcore_runtime_handler"],
       [name |-> "eventbridge",      phase |-> COMPUTE,        requires |-> Omitted, fn |-> "eventbridge_handler"],
       [name |-> "triggers",         phase |-> COMPUTE,        requires |-> Omitted, fn |-> "triggers_handler"],
       [name |-> "webhookGateway",   phase |-> COMPUTE,        requires |-> Omitted, fn |-> "webhook_gateway_handler"] >>

\* the registrations with webhookGateway registered in the FOUNDATION phase
Registrations_foundation ==
    << [name |-> "compute",          phase |-> COMPUTE,        requires |-> Omitted, fn |-> "compute_handler"],
       [name |-> "cache",            phase |-> INFRASTRUCTURE, requires |-> Omitted, fn |-> "cache_handler"],
       [name |-> "storage",          phase |-> INFRASTRUCTURE, requires |-> Omitted, fn |-> "storage_handler"],
       [name |-> "database",         phase |-> INFRASTRUCTURE, requires |-> Omitted, fn |-> "database_handler"],
       [name |-> "dynamodb",         phase |-> INFRASTRUCTURE, requires |-> Omitted, fn |-> "dynamodb_handler"],
       [name |-> "s3",               phase |-> INFRASTRUCTURE, requires |-> Omitted, fn |-> "s3_handler"],
       [name |-> "serviceDiscovery", phase |-> INFRASTRUCTURE, requires |-> Omitted, fn |-> "service_discovery_handler"],
       [name |-> "lambda",           phase |-> COMPUTE,        requires |-> Given(<<"storage">>), fn |-> "lambda_handler"],
       [name |-> "agentcoreRuntime", phase |-> COMPUTE,        requires |-> Omitted, fn |-> "agentcore_runtime_handler"],
       [name |-> "eventbridge",      phase |-> COMPUTE,        requires |-> Omitted, fn |-> "eventbridge_handler"],
       [name |-> "triggers",         phase |-> COMPUTE,        requires |-> Omitted, fn |-> "triggers_handler"],
       [name |-> "webhookGateway",   phase |-> FOUNDATION,     requires |-> Omitted, fn |-> "webhook_gateway_handler"] >>

\* the registrations with storage registered in the NETWORKING phase
Registrations_storage_networking ==
    << [name |-> "compute",          phase |-> COMPUTE,        requires |-> Omitted, fn |-> "compute_handler"],
       [name |-> "cache",            phase |-> INFRASTRUCTURE, requires |-> Omitted, fn |-> "cache_handler"],
       [name |-> "storage",          phase |-> NETWORKING,     requires |-> Omitted, fn |-> "storage_handler"],
       [name |-> "database",         phase |-> INFRASTRUCTURE, requires |-> Omitted, fn |-> "database_handler"],
       [name |-> "dynamodb",         phase |-> INFRASTRUCTURE, requires |-> Omitted, fn |-> "dynamodb_handler"],
       [name |-> "s3",               phase |-> INFRASTRUCTURE, requires |-> Omitted, fn |-> "s3_handler"],
       [name |-> "serviceDiscovery", phase |-> INFRASTRUCTURE, requires |-> Omitted, fn |-> "service_discovery_handler"],
       [name |-> "lambda",           phase |-> COMPUTE,        requires |-> Given(<<"storage">>), fn |-> "lambda_handler"],
       [name |-> "agentcoreRuntime", phase |-> COMPUTE,        requires |-> Omitted, fn |-> "agentcore_runtime_handler"],
       [name |-> "eventbridge",      phase |-> COMPUTE,        requires |-> Omitted, fn |-> "eventbridge_handler"],
       [name |-> "triggers",         phase |-> COMPUTE,        requires |-> Omitted, fn |-> "triggers_handler"],
       [name |-> "webhookGateway",   phase |-> COMPUTE,        requires |-> Omitted, fn |-> "webhook_gateway_handler"] >>

\* the registrations with lambda registered in the INFRASTRUCTURE phase
Registrations_m ==
    << [name |-> "compute",          phase |-> COMPUTE,        requires |-> Omitted, fn |-> "compute_handler"],
       [name |-> "cache",            phase |-> INFRASTRUCTURE, requires |-> Omitted, fn |-> "cache_handler"],
       [name |-> "storage",          phase |-> INFRASTRUCTURE, requires |-> Omitted, fn |-> "storage_handler"],
       [name |-> "database",         phase |-> INFRASTRUCTURE, requires |-> Omitted, fn |-> "database_handler"],
       [name |-> "dynamodb",         phase |-> INFRASTRUCTURE, requires |-> Omitted, fn |-> "dynamodb_handler"],
       [name |-> "s3",               phase |-> INFRASTRUCTURE, requires |-> Omitted, fn |-> "s3_handler"],
       [name |-> "serviceDiscovery", phase |-> INFRASTRUCTURE, requires |-> Omitted, fn |-> "service_discovery_handler"],
       [name |-> "lambda",           phase |-> INFRASTRUCTURE, requires |-> Given(<<"storage">>), fn |-> "lambda_handler"],
       [name |-> "agentcoreRuntime", phase |-> COMPUTE,        requires |-> Omitted, fn |-> "agentcore_runtime_handler"],
       [name |-> "eventbridge",      phase |-> COMPUTE,        requires |-> Omitted, fn |-> "eventbridge_handler"],
       [name |-> "triggers",         phase |-> COMPUTE,        requires |-> Omitted, fn |-> "triggers_handler"],
       [name |-> "webhookGateway",   phase |-> COMPUTE,        requires |-> Omitted, fn |-> "webhook_gateway_handler"] >>

\* the registrations made by the capability modules, in one import order
Registrations ==
    << [name |-> "compute",          phase |-> COMPUTE,        requires |-> Omitted,       fn |-> "compute_handler"],
       [name |-> "cache",            phase |-> INFRASTRUCTURE, requires |-> Omitted,       fn |-> "cache_handler"],
       [name |-> "storage",          phase |-> INFRASTRUCTURE, requires |-> Omitted,       fn |-> "storage_handler"],
       [name |-> "database",         phase |-> INFRASTRUCTURE, requires |-> Omitted,       fn |-> "database_handler"],
       [name |-> "dynamodb",         phase |-> INFRASTRUCTURE, requires |-> Omitted,       fn |-> "dynamodb_handler"],
       [name |-> "s3",               phase |-> INFRASTRUCTURE, requires |-> Omitted,       fn |-> "s3_handler"],
       [name |-> "serviceDiscovery", phase |-> INFRASTRUCTURE, requires |-> Omitted,       fn |-> "service_discovery_handler"],
       [name |-> "lambda",           phase |-> COMPUTE,        requires |-> Given(<<"storage">>), fn |-> "lambda_handler"],
       [name |-> "agentcoreRuntime", phase |-> COMPUTE,        requires |-> Omitted,       fn |-> "agentcore_runtime_handler"],
       [name |-> "eventbridge",      phase |-> COMPUTE,        requires |-> Omitted,       fn |-> "eventbridge_handler"],
       [name |-> "triggers",         phase |-> COMPUTE,        requires |-> Omitted,       fn |-> "triggers_handler"],
       [name |-> "webhookGateway",   phase |-> COMPUTE,        requires |-> Omitted,       fn |-> "webhook_gateway_handler"] >>

RECURSIVE RegisterAll(_, _)
RegisterAll(caps, regs) ==
    IF regs = <<>> THEN caps
    ELSE LET r == Head(regs)
         IN  RegisterAll(register(caps, r.name, r.phase, r.requires, r.fn), Tail(regs))

\* the process-wide table after every capability module is imported
CAPABILITIES == RegisterAll(EmptyMap, Registrations)

\* ------------------------------------------------------------------------
\* context.py: CapabilityContext over [outputs, exports]
\* ------------------------------------------------------------------------

NewContext == [outputs |-> EmptyMap, exports |-> EmptyMap]

\* Python's order of strings (by code point) on the keys a Context can hold
KeyOrder ==
    << "agentcore.memory.id",
       "agentcore.runtimes.agent-a.arn",
       "agentcore.runtimes.agent-b.arn",
       "cache.redis.endpoint",
       "database.rds.endpoint",
       "dynamodb.tables.jobs.arn",
       "dynamodb.tables.jobs.name",
       "dynamodb.tables.my-events.arn",
       "dynamodb.tables.my-events.name",
       "eventbridge.schedule_group",
       "iam.agentcore_memory_role",
       "iam.agentcore_runtime_role",
       "iam.exec_role",
       "iam.lambda_execution_role",
       "iam.task_role",
       "lambda.test-fn.url",
       "s3.bucket_arns",
       "s3.bucket_env_vars",
       "s3.buckets.logs.arn",
       "s3.buckets.logs.name",
       "s3.buckets.my-state.arn",
       "s3.buckets.my-state.name",
       "security_groups.agent.id",
       "security_groups.agentcore.id",
       "security_groups.compute",
       "security_groups.compute.id",
       "security_groups.database.id",
       "security_groups.efs.id",
       "serviceDiscovery.namespace_id",
       "storage.efs.access_point_arn",
       "storage.efs.filesystem_id",
       "triggers.eventbridge.schedule_group",
       "webhookGateway.enabled" >>

\* sorted(keys): the keys in Python's string order
RECURSIVE SortedFrom(_, _)
SortedFrom(order, keys) ==
    IF order = <<>> THEN <<>>
    ELSE (IF Head(order) \in keys THEN <<Head(order)>> ELSE <<>>)
         \o SortedFrom(Tail(order), keys)

sorted(keys) == SortedFrom(KeyOrder, keys)

\* available keys of the require message without the "(none)" marker
available_m(c) == sorted(DOMAIN c.outputs)

\* ", ".join(sorted(self._outputs.keys())) or "(none)": the listed names
available(c) ==
    IF sorted(DOMAIN c.outputs) = <<>> THEN <<"(none)">> ELSE sorted(DOMAIN c.outputs)

\* set that replaces the outputs map by the one entry
set_m(c, key, value) == [c EXCEPT !.outputs = (key :> value)]

set(c, key, value) == [c EXCEPT !.outputs = (key :> value) @@ @]

\* get that falls back to the default for a stored None
get_m(c, key, default) ==
    IF key \in DOMAIN c.outputs /\ c.outputs[key] # None THEN c.outputs[key] ELSE default

get(c, key, default) ==
    IF key \in DOMAIN c.outputs THEN c.outputs[key] ELSE default

\* the value require returns when the key is present
required(c, key) == c.outputs[key]

export(c, key, value) == [c EXCEPT !.exports = (key :> value) @@ @]

\* exports that returns the dict of the Context itself
exports_m(c) == [alias |-> TRUE, items |-> c.exports]

\* the exports property, dict(self._exports): a new dict object (not an alias
\* of the Context's own dict) holding the same entries
exports(c) == [alias |-> FALSE, items |-> [k \in DOMAIN c.exports |-> c.exports[k]]]

\* ------------------------------------------------------------------------
\* Execution of one step (Foundation or one handler): the Context, the log
\* of calls into the resource layer, the raised error and the fuel
\* ------------------------------------------------------------------------

NoError == [kind |-> "none", key |-> "", available |-> <<>>]

Start(c, log, who, fuel) ==
    [ctx |-> c, calls |-> log, err |-> NoError, who |-> who, fuel |-> fuel]

Failed(st) == st.err.kind # "none"

Set(st, key, value) ==
    IF Failed(st) THEN st ELSE [st EXCEPT !.ctx = set(st.ctx, key, value)]

Export(st, key, value) ==
    IF Failed(st) THEN st ELSE [st EXCEPT !.ctx = export(st.ctx, key, value)]

\* require(key): raises RuntimeError when the key is missing
require(st, key) ==
    IF Failed(st) THEN st
    ELSE IF key \notin DOMAIN st.ctx.outputs
         THEN [st EXCEPT !.err = [kind |-> "missing required key", key |-> key,
                                  available |-> available(st.ctx)]]
         ELSE st

\* one call into the resource-construction layer, logged with its arguments;
\* it raises when the fuel of the step is used up
Call(st, fn, a1, a2, res) ==
    IF Failed(st) THEN st
    ELSE LET rec == [fn |-> fn, by |-> st.who, a1 |-> a1, a2 |-> a2, res |-> res,
                     raised |-> st.fuel = 0]
         IN  IF st.fuel = 0
             THEN [st EXCEPT !.calls = Append(@, rec),
                             !.err = [kind |-> "provisioning", key |-> fn,
                                      available |-> <<>>]]
             ELSE [st EXCEPT !.calls = Append(@, rec),
                             !.fuel = IF @ > 0 THEN @ - 1 ELSE @]

\* ------------------------------------------------------------------------
\* foundation.py
\* ------------------------------------------------------------------------

FoundationComputeSg(declared, st) ==
    IF "compute" \in declared \/ "lambda" \in declared
    THEN LET s1 == Call(st, "create_ecs_security_group", None, None, {})
             s2 == Set(s1, "security_groups.compute", Obj("compute_sg"))
         IN  Set(s2, "security_groups.compute.id", Obj("compute_sg.id"))
    ELSE st

\* the agent security group row without the database condition
FoundationAgentSg_m(declared, st) ==
    IF "cache" \in declared \/ "storage" \in declared
    THEN LET s1 == Call(st, "create_agent_security_group", None, None, {})
         IN  Set(s1, "security_groups.agent.id", Obj("agent_sg.id"))
    ELSE st

FoundationAgentSg(declared, st) ==
    IF "database" \in declared \/ "cache" \in declared \/ "storage" \in declared
    THEN LET s1 == Call(st, "create_agent_security_group", None, None, {})
         IN  Set(s1, "security_groups.agent.id", Obj("agent_sg.id"))
    ELSE st

\* the database security group row without the database condition
FoundationDatabaseSg_m(declared, st) ==
    IF "cache" \in declared
    THEN LET s1 == Call(st, "create_database_security_group",
                        get(st.ctx, "security_groups.compute.id", None),
                        get(st.ctx, "security_groups.agent.id", None), {})
         IN  Set(s1, "security_groups.database.id", Obj("db_sg.id"))
    ELSE st

\* the database security group row creating one group for database and one
\* for cache
FoundationDatabaseSg_each(declared, st) ==
    LET s1 == IF "database" \in declared
              THEN Set(Call(st, "create_database_security_group",
                            get(st.ctx, "security_groups.compute.id", None),
                            get(st.ctx, "security_groups.agent.id", None), {}),
                       "security_groups.database.id", Obj("db_sg.id"))
              ELSE st
    IN  IF "cache" \in declared
        THEN Set(Call(s1, "create_database_security_group",
                      get(s1.ctx, "security_groups.compute.id", None),
                      get(s1.ctx, "security_groups.agent.id", None), {}),
                 "security_groups.database.id", Obj("db_sg.id"))
        ELSE s1

FoundationDatabaseSg(declared, st) ==
    IF "database" \in declared \/ "cache" \in declared
    THEN LET s1 == Call(st, "create_database_security_group",
                        get(st.ctx, "security_groups.compute.id", None),
                        get(st.ctx, "security_groups.agent.id", None), {})
         IN  Set(s1, "security_groups.database.id", Obj("db_sg.id"))
    ELSE st

FoundationEfsSg(declared, st) ==
    IF "storage" \in declared
    THEN LET s1 == Call(st, "create_efs_security_group",
                        get(st.ctx, "security_groups.compute.id", None),
                        get(st.ctx, "security_groups.agent.id", None), {})
         IN  Set(s1, "security_groups.efs.id", Obj("efs_sg.id"))
    ELSE st

\* the task role row firing for lambda as well
FoundationTaskRoles_m(declared, st) ==
    IF "compute" \in declared \/ "lambda" \in declared
    THEN LET s1 == Call(st, "create_task_roles", None, None, {})
             s2 == Set(s1, "iam.task_role", Obj("task_role"))
         IN  Set(s2, "iam.exec_role", Obj("exec_role"))
    ELSE st

FoundationTaskRoles(declared, st) ==
    IF "compute" \in declared
    THEN LET s1 == Call(st, "create_task_roles", None, None, {})
             s2 == Set(s1, "iam.task_role", Obj("task_role"))
         IN  Set(s2, "iam.exec_role", Obj("exec_role"))
    ELSE st

FoundationLambdaRole(declared, st) ==
    IF "lambda" \in declared
    THEN LET s1 == Call(st, "create_lambda_execution_role", None, None, {})
         IN  Set(s1, "iam.lambda_execution_role", Obj("lambda_role"))
    ELSE st

FoundationAgentcoreRoles(declared, st) ==
    IF "agentcoreRuntime" \in declared
    THEN LET s1 == Call(st, "create_agentcore_runtime_role", None, None, {})
             s2 == Set(s1, "iam.agentcore_runtime_role", Obj("agentcore_role"))
             s3 == Call(s2, "create_agentcore_memory_role", None, None, {})
         IN  Set(s3, "iam.agentcore_memory_role", Obj("memory_role"))
    ELSE st

\* provision_foundation with the compute security group row moved down
provision_foundation_m(spec_sections, st) ==
    LET declared == DOMAIN spec_sections
        r1 == FoundationAgentSg(declared, st)
        r2 == FoundationDatabaseSg(declared, r1)
        r3 == FoundationEfsSg(declared, r2)
        r4 == FoundationComputeSg(declared, r3)
        r5 == FoundationTaskRoles(declared, r4)
        r6 == FoundationLambdaRole(declared, r5)
    IN  FoundationAgentcoreRoles(declared, r6)

\* provision_foundation(spec_sections, ctx): the rows top to bottom, once
provision_foundation(spec_sections, st) ==
    LET declared == DOMAIN spec_sections
        r1 == FoundationComputeSg(declared, st)
        r2 == FoundationAgentSg(declared, r1)
        r3 == FoundationDatabaseSg(declared, r2)
        r4 == FoundationEfsSg(declared, r3)
        r5 == FoundationTaskRoles(declared, r4)
        r6 == FoundationLambdaRole(declared, r5)
    IN  FoundationAgentcoreRoles(declared, r6)

\* ------------------------------------------------------------------------
\* Section configurations: a section is [isNone, items, fields]; items is the
\* list under "buckets", "tables", "functions" or "runtimes" (empty when the
\* key is missing), each entry a mapping of which name, image and networkMode
\* count; fields maps the optional sub-fields that are present to their values
\* ------------------------------------------------------------------------

Item(name, image, networkMode) ==
    [name |-> name, image |-> image, networkMode |-> networkMode]

Section(items) == [isNone |-> FALSE, items |-> items, fields |-> EmptyMap]

SectionWith(items, fields) == [isNone |-> FALSE, items |-> items, fields |-> fields]

NullSection == [isNone |-> TRUE, items |-> <<>>, fields |-> EmptyMap]

\* a nested mapping held as the value of a sub-field
Map(m) == <<"map", m>>

\* dict.get(key, default) on a mapping
dict_get(m, key, default) == IF key \in DOMAIN m THEN m[key] ELSE default

\* section_config.get(key, default)
section_get(section_config, key, default) == dict_get(section_config.fields, key, default)

\* Python's `v or default`
Or(v, default) == IF Truthy(v) THEN v ELSE default

\* the options a handler passes to create_rds_instance
RdsOptions(section_config) ==
    { <<"db_name", Or(section_get(section_config, "dbName", None), Obj("svc_db"))>>,
      <<"db_username", Or(section_get(section_config, "dbUsername", None), Obj("admin"))>>,
      <<"instance_class", section_get(section_config, "instanceClass", Obj("db.t3.micro"))>>,
      <<"allocated_storage", section_get(section_config, "allocatedStorage", Obj("20"))>> }

\* the options a handler passes to create_redis_cluster
RedisOptions(section_config) ==
    { <<"node_type", section_get(section_config, "nodeType", Obj("cache.t3.micro"))>>,
      <<"num_cache_clusters", section_get(section_config, "numNodes", Obj("1"))>> }

\* the options a handler passes to create_efs_filesystem
EfsOptions(section_config) ==
    LET efs_cfg == section_get(section_config, "efs", Map(EmptyMap))[2]
        access_point_cfg == dict_get(efs_cfg, "accessPoint", Map(EmptyMap))[2]
    IN  { <<"encrypted", dict_get(efs_cfg, "encrypted", True)>>,
          <<"lifecycle_policy", dict_get(efs_cfg, "lifecycle", Obj("AFTER_30_DAYS"))>>,
          <<"access_point_path", dict_get(access_point_cfg, "path", Obj("/data"))>>,
          <<"posix_uid", dict_get(access_point_cfg, "uid", Obj("1000"))>>,
          <<"posix_gid", dict_get(access_point_cfg, "gid", Obj("1000"))>> }

\* f-strings and replace() of the handlers over the names used in a run
S3ArnKey(n) ==
    CASE n = "my-state" -> "s3.buckets.my-state.arn"
      [] n = "logs"     -> "s3.buckets.logs.arn"

S3NameKey(n) ==
    CASE n = "my-state" -> "s3.buckets.my-state.name"
      [] n = "logs"     -> "s3.buckets.logs.name"

\* f"s3_bucket_{logical_name.replace('-', '_')}"
S3ExportKey(n) ==
    CASE n = "my-state" -> "s3_bucket_my_state"
      [] n = "logs"     -> "s3_bucket_logs"

\* f"S3_BUCKET_{logical_name.upper().replace('-', '_')}"
S3EnvKey(n) ==
    CASE n = "my-state" -> "S3_BUCKET_MY_STATE"
      [] n = "logs"     -> "S3_BUCKET_LOGS"

\* f"{aws_account_id}-{logical_name}", also the bucket attribute of the bucket
S3RealName(n) ==
    CASE n = "my-state" -> "470935583836-my-state"
      [] n = "logs"     -> "470935583836-logs"

\* the arn attribute of the bucket created under a real name
S3Arn(n) ==
    CASE n = "my-state" -> "arn:aws:s3:::470935583836-my-state"
      [] n = "logs"     -> "arn:aws:s3:::470935583836-logs"

DynamoArnKey(n) ==
    CASE n = "jobs"      -> "dynamodb.tables.jobs.arn"
      [] n = "my-events" -> "dynamodb.tables.my-events.arn"

DynamoNameKey(n) ==
    CASE n = "jobs"      -> "dynamodb.tables.jobs.name"
      [] n = "my-events" -> "dynamodb.tables.my-events.name"

\* f"dynamodb_table_{name.replace('-', '_')}"
DynamoExportKey(n) ==
    CASE n = "jobs"      -> "dynamodb_table_jobs"
      [] n = "my-events" -> "dynamodb_table_my_events"

DynamoArn(n) ==
    CASE n = "jobs"      -> "arn:aws:dynamodb:table/jobs"
      [] n = "my-events" -> "arn:aws:dynamodb:table/my-events"

\* f"{arn}/*"
SubPath(arn) ==
    CASE arn = "arn:aws:s3:::470935583836-my-state" -> "arn:aws:s3:::470935583836-my-state/*"
      [] arn = "arn:aws:s3:::470935583836-logs"     -> "arn:aws:s3:::470935583836-logs/*"
      [] arn = "arn:aws:dynamodb:table/jobs"        -> "arn:aws:dynamodb:table/jobs/*"
      [] arn = "arn:aws:dynamodb:table/my-events"   -> "arn:aws:dynamodb:table/my-events/*"

\* arns + [f"{arn}/*" for arn in arns]
PolicyResources(arns) == Range(arns) \cup {SubPath(a) : a \in Range(arns)}

LambdaUrlKey(n) == CASE n = "test-fn" -> "lambda.test-fn.url"

\* f"lambda_{name.replace('-', '_')}_url"
LambdaExportKey(n) == CASE n = "test-fn" -> "lambda_test_fn_url"

LambdaUrl(n) == CASE n = "test-fn" -> "https://test-fn.lambda-url"

RuntimeArnKey(n) ==
    CASE n = "agent-a" -> "agentcore.runtimes.agent-a.arn"
      [] n = "agent-b" -> "agentcore.runtimes.agent-b.arn"

\* f"agentcore_runtime_{rt['name'].replace('-', '_')}_arn"
RuntimeExportKey(n) ==
    CASE n = "agent-a" -> "agentcore_runtime_agent_a_arn"
      [] n = "agent-b" -> "agentcore_runtime_agent_b_arn"

RuntimeArn(n) ==
    CASE n = "agent-a" -> "arn:aws:bedrock-agentcore:runtime/agent-a"
      [] n = "agent-b" -> "arn:aws:bedrock-agentcore:runtime/agent-b"

\* f"ecr_{image_name.replace('-', '_')}_uri"
EcrExportKey(image) == CASE image = "img-a" -> "ecr_img_a_uri"

EcrUri(image) == CASE image = "img-a" -> "ecr/svc-img-a"

\* the token of a value placed in a list argument
TokenOf(v) == IF v = None THEN "None" ELSE v[2][1]

\* ------------------------------------------------------------------------
\* Capability handlers
\* ------------------------------------------------------------------------

\* database_handler that swallows the error of create_rds_instance
database_handler_m(section_config, st) ==
    LET s1 == require(st, "security_groups.database.id")
        sg_id == get(s1.ctx, "security_groups.database.id", None)
        s2 == Call(s1, "create_rds_instance", sg_id, None, RdsOptions(section_config))
        s3 == Set([s2 EXCEPT !.err = s1.err], "database.rds.endpoint",
                  Obj("rds_instance.endpoint"))
    IN  Export(s3, "rds_endpoint", Obj("rds_instance.endpoint"))

\* database.py
database_handler(section_config, st) ==
    LET s1 == require(st, "security_groups.database.id")
        sg_id == get(s1.ctx, "security_groups.database.id", None)
        s2 == Call(s1, "create_rds_instance", sg_id, None, RdsOptions(section_config))
        s3 == Set(s2, "database.rds.endpoint", Obj("rds_instance.endpoint"))
    IN  Export(s3, "rds_endpoint", Obj("rds_instance.endpoint"))

\* cache_handler that swallows the error of create_redis_cluster
cache_handler_m(section_config, st) ==
    LET s1 == require(st, "security_groups.database.id")
        sg_id == get(s1.ctx, "security_groups.database.id", None)
        s2 == Call(s1, "create_redis_cluster", sg_id, None, RedisOptions(section_config))
        s3 == Set([s2 EXCEPT !.err = s1.err], "cache.redis.endpoint",
                  Obj("redis_cluster.endpoint"))
    IN  Export(s3, "redis_endpoint", Obj("redis_cluster.endpoint"))

\* cache.py
cache_handler(section_config, st) ==
    LET s1 == require(st, "security_groups.database.id")
        sg_id == get(s1.ctx, "security_groups.database.id", None)
        s2 == Call(s1, "create_redis_cluster", sg_id, None, RedisOptions(section_config))
        s3 == Set(s2, "cache.redis.endpoint", Obj("redis_cluster.endpoint"))
    IN  Export(s3, "redis_endpoint", Obj("redis_cluster.endpoint"))

\* storage_handler that does not publish the access point
storage_handler_m(section_config, st) ==
    LET s1 == require(st, "security_groups.efs.id")
        sg_id == get(s1.ctx, "security_groups.efs.id", None)
        s2 == Call(s1, "create_efs_filesystem", sg_id, None, EfsOptions(section_config))
        s3 == Set(s2, "storage.efs.filesystem_id", Obj("efs_fs.id"))
    IN  Export(s3, "efs_filesystem_id", Obj("efs_fs.id"))

\* storage.py
storage_handler(section_config, st) ==
    LET s1 == require(st, "security_groups.efs.id")
        sg_id == get(s1.ctx, "security_groups.efs.id", None)
        s2 == Call(s1, "create_efs_filesystem", sg_id, None, EfsOptions(section_config))
        s3 == Set(s2, "storage.efs.filesystem_id", Obj("efs_fs.id"))
        s4 == Set(s3, "storage.efs.access_point_arn", Obj("efs_ap.arn"))
    IN  Export(s4, "efs_filesystem_id", Obj("efs_fs.id"))

\* service_discovery_handler that subscripts section_config["namespace"]
service_discovery_handler_m(section_config, st) ==
    IF "namespace" \notin DOMAIN section_config.fields
    THEN [st EXCEPT !.err = [kind |-> "KeyError", key |-> "namespace", available |-> <<>>]]
    ELSE LET namespace_name == section_config.fields["namespace"]
             s1 == Call(st, "create_service_discovery", namespace_name, None, {})
             s2 == Set(s1, "serviceDiscovery.namespace_id", Obj("cloudmap_ns.id"))
         IN  Export(s2, "cloudmap_namespace_id", Obj("cloudmap_ns.id"))

\* service_discovery.py
service_discovery_handler(section_config, st) ==
    LET namespace_name == Or(section_get(section_config, "namespace", None), Obj("svc.local"))
        s1 == Call(st, "create_service_discovery", namespace_name, None, {})
        s2 == Set(s1, "serviceDiscovery.namespace_id", Obj("cloudmap_ns.id"))
    IN  Export(s2, "cloudmap_namespace_id", Obj("cloudmap_ns.id"))

\* eventbridge.py
eventbridge_handler(section_config, st) ==
    LET s1 == Call(st, "create_eventbridge_scheduler", None, None, {})
        s2 == Set(s1, "eventbridge.schedule_group", Obj("schedule_group.name"))
    IN  Export(s2, "eventbridge_schedule_group", Obj("schedule_group.name"))

\* triggers.py
triggers_handler(section_config, st) ==
    LET s1 == Call(st, "create_eventbridge_scheduler", None, None, {})
        s2 == Set(s1, "triggers.eventbridge.schedule_group", Obj("schedule_group.name"))
    IN  Export(s2, "eventbridge_schedule_group", Obj("schedule_group.name"))

\* webhook_gateway.py
webhook_gateway_handler(section_config, st) ==
    Export(Set(st, "webhookGateway.enabled", True), "webhook_gateway_enabled", True)

\* compute.py
compute_handler(section_config, st) ==
    LET s1 == require(st, "security_groups.compute")
        s2 == require(s1, "iam.task_role")
        s3 == require(s2, "iam.exec_role")
        security_group == get(s3.ctx, "security_groups.compute", None)
        task_role == get(s3.ctx, "iam.task_role", None)
        exec_role == get(s3.ctx, "iam.exec_role", None)
        s4 == Call(s3, "create_ecr_repository", Obj("svc"), None, {})
        s5 == Call(s4, "create_ecs_cluster", None, None, {})
        s6 == Call(s5, "create_target_group", None, None, {})
        s7 == Call(s6, "create_listener_rule", None, None, {})
        s8 == Call(s7, "create_dns_record", None, None, {})
        s9 == Call(s8, "create_access_application", None, None, {})
        s10 == Call(s9, "create_task_definition", task_role, exec_role, {})
        s11 == Call(s10, "create_ecs_service", security_group, None, {})
        s12 == Export(s11, "service_url", Obj("https://svc.zone"))
        s13 == Export(s12, "ecr_repository_uri", Obj("ecr_repo.repository_url"))
        s14 == Export(s13, "ecs_cluster_name", Obj("cluster.name"))
    IN  Export(s14, "ecs_service_name", Obj("ecs_service.name"))

\* the names, in order, of a list of entries
RECURSIVE Names(_)
Names(items) ==
    IF items = <<>> THEN <<>> ELSE <<Head(items).name>> \o Names(Tail(items))

\* the arn of each created bucket, in creation order
RECURSIVE S3Arns(_)
S3Arns(names) ==
    IF names = <<>> THEN <<>> ELSE <<S3Arn(Head(names))>> \o S3Arns(Tail(names))

\* the arn of each created table, in creation order
RECURSIVE DynamoArns(_)
DynamoArns(names) ==
    IF names = <<>> THEN <<>> ELSE <<DynamoArn(Head(names))>> \o DynamoArns(Tail(names))

\* s3.py: the body of the loop over buckets_config
RECURSIVE S3BucketLoop(_, _)
S3BucketLoop(st, buckets_config) ==
    IF buckets_config = <<>> THEN st
    ELSE LET logical_name == Head(buckets_config).name
             s1 == Call(st, "create_s3_bucket", Obj(S3RealName(logical_name)), None, {})
             s2 == Set(s1, S3ArnKey(logical_name), Obj(S3Arn(logical_name)))
             s3 == Set(s2, S3NameKey(logical_name), Obj(S3RealName(logical_name)))
             s4 == Export(s3, S3ExportKey(logical_name), Obj(S3RealName(logical_name)))
         IN  S3BucketLoop(s4, Tail(buckets_config))

\* the bucket_env_vars dict as its keys and values in insertion order
RECURSIVE S3EnvVars(_)
S3EnvVars(names) ==
    IF names = <<>> THEN <<>>
    ELSE <<S3EnvKey(Head(names)), S3RealName(Head(names))>> \o S3EnvVars(Tail(names))

\* _grant_s3_access without the object sub-paths of the buckets
s3_grant_s3_access_m(st, role, bucket_arns, role_label) ==
    Call(st, "RolePolicy", role, Obj(role_label), Range(bucket_arns))

\* s3.py, _grant_s3_access: one inline RolePolicy on the given role
s3_grant_s3_access(st, role, bucket_arns, role_label) ==
    Call(st, "RolePolicy", role, Obj(role_label), PolicyResources(bucket_arns))

\* s3_handler that exports an empty name list when no bucket is configured
s3_handler_m(section_config, st) ==
    LET buckets_config == section_config.items
    IN  IF buckets_config = <<>> THEN Export(st, "s3_bucket_names", List(<<>>))
        ELSE LET s1 == S3BucketLoop(st, buckets_config)
                 bucket_arns == S3Arns(Names(buckets_config))
                 s2 == Set(s1, "s3.bucket_arns", List(bucket_arns))
                 s3 == Set(s2, "s3.bucket_env_vars",
                           <<"dict", S3EnvVars(Names(buckets_config))>>)
                 task_role == get(s3.ctx, "iam.task_role", None)
             IN  IF task_role # None
                 THEN s3_grant_s3_access(s3, task_role, bucket_arns, "svc_s3_task_policy")
                 ELSE s3

\* s3.py
s3_handler(section_config, st) ==
    LET buckets_config == section_config.items
    IN  IF buckets_config = <<>> THEN st
        ELSE LET s1 == S3BucketLoop(st, buckets_config)
                 bucket_arns == S3Arns(Names(buckets_config))
                 s2 == Set(s1, "s3.bucket_arns", List(bucket_arns))
                 s3 == Set(s2, "s3.bucket_env_vars",
                           <<"dict", S3EnvVars(Names(buckets_config))>>)
                 task_role == get(s3.ctx, "iam.task_role", None)
             IN  IF task_role # None
                 THEN s3_grant_s3_access(s3, task_role, bucket_arns, "svc_s3_task_policy")
                 ELSE s3

\* dynamodb.py: the body of the loop over tables_config
RECURSIVE DynamoTableLoop(_, _)
DynamoTableLoop(st, tables_config) ==
    IF tables_config = <<>> THEN st
    ELSE LET name == Head(tables_config).name
             s1 == Call(st, "create_dynamodb_table", Obj(name), None, {})
             s2 == Set(s1, DynamoArnKey(name), Obj(DynamoArn(name)))
             s3 == Set(s2, DynamoNameKey(name), Obj(name))
             s4 == Export(s3, DynamoExportKey(name), Obj(name))
         IN  DynamoTableLoop(s4, Tail(tables_config))

\* dynamodb_handler that attaches the task role policy without testing the role
dynamodb_handler_m(section_config, st) ==
    LET tables_config == section_config.items
    IN  IF tables_config = <<>> THEN Export(st, "dynamodb_table_names", List(<<>>))
        ELSE LET s1 == DynamoTableLoop(st, tables_config)
                 table_names == Names(tables_config)
                 table_arns == DynamoArns(table_names)
                 s2 == Export(s1, "dynamodb_table_names", List(table_names))
                 task_role == get(s2.ctx, "iam.task_role", None)
                 s3 == Call(s2, "RolePolicy", task_role, Obj("svc_dynamodb_policy"),
                            PolicyResources(table_arns))
                 agentcore_role == get(s3.ctx, "iam.agentcore_runtime_role", None)
             IN  IF agentcore_role # None
                 THEN Call(s3, "RolePolicy", agentcore_role,
                           Obj("svc_dynamodb_agentcore_policy"), PolicyResources(table_arns))
                 ELSE s3

\* dynamodb.py
dynamodb_handler(section_config, st) ==
    LET tables_config == section_config.items
    IN  IF tables_config = <<>> THEN Export(st, "dynamodb_table_names", List(<<>>))
        ELSE LET s1 == DynamoTableLoop(st, tables_config)
                 table_names == Names(tables_config)
                 table_arns == DynamoArns(table_names)
                 s2 == Export(s1, "dynamodb_table_names", List(table_names))
                 task_role == get(s2.ctx, "iam.task_role", None)
                 s3 == IF task_role # None
                       THEN Call(s2, "RolePolicy", task_role, Obj("svc_dynamodb_policy"),
                                 PolicyResources(table_arns))
                       ELSE s2
                 agentcore_role == get(s3.ctx, "iam.agentcore_runtime_role", None)
             IN  IF agentcore_role # None
                 THEN Call(s3, "RolePolicy", agentcore_role,
                           Obj("svc_dynamodb_agentcore_policy"), PolicyResources(table_arns))
                 ELSE s3

\* lambda_functions.py: the body of the loop over functions
RECURSIVE LambdaFunctionLoop(_, _)
LambdaFunctionLoop(st, functions) ==
    IF functions = <<>> THEN st
    ELSE LET fn == Head(functions)
             s1 == Call(st, "create_ecr_repository", Obj(fn.image), None, {})
             s2 == Call(s1, "create_lambda_function",
                        get(s1.ctx, "security_groups.compute.id", None),
                        get(s1.ctx, "storage.efs.access_point_arn", None), {})
             s3 == Set(s2, LambdaUrlKey(fn.name), Obj(LambdaUrl(fn.name)))
             s4 == Export(s3, LambdaExportKey(fn.name), Obj(LambdaUrl(fn.name)))
         IN  LambdaFunctionLoop(s4, Tail(functions))

\* lambda_handler that requires the access point only when it builds a function
lambda_handler_m(section_config, st) ==
    LET functions == section_config.items
    IN  IF functions = <<>> THEN st
        ELSE LET s1 == require(st, "security_groups.compute.id")
                 s2 == require(s1, "iam.lambda_execution_role")
                 s3 == Call(s2, "create_ecr_repository", Obj(Head(functions).image), None, {})
                 s4 == require(s3, "storage.efs.access_point_arn")
                 s5 == Call(s4, "create_lambda_function",
                            get(s4.ctx, "security_groups.compute.id", None),
                            get(s4.ctx, "storage.efs.access_point_arn", None), {})
                 s6 == Set(s5, LambdaUrlKey(Head(functions).name),
                           Obj(LambdaUrl(Head(functions).name)))
                 s7 == Export(s6, LambdaExportKey(Head(functions).name),
                              Obj(LambdaUrl(Head(functions).name)))
             IN  LambdaFunctionLoop(s7, Tail(functions))

\* lambda_functions.py
lambda_handler(section_config, st) ==
    LET functions == section_config.items
    IN  IF functions = <<>> THEN st
        ELSE LET s1 == require(st, "security_groups.compute.id")
                 s2 == require(s1, "iam.lambda_execution_role")
                 s3 == require(s2, "storage.efs.access_point_arn")
             IN  LambdaFunctionLoop(s3, functions)

\* agentcore_runtime.py: the body of the loop over runtimes_config
RECURSIVE AgentcoreRuntimeLoop(_, _)
AgentcoreRuntimeLoop(st, runtimes_config) ==
    IF runtimes_config = <<>> THEN st
    ELSE LET rt == Head(runtimes_config)
             s1 == Call(st, "create_ecr_repository", Obj(rt.image), None, {})
             security_group_ids ==
                 IF rt.networkMode = Obj("VPC")
                 THEN List(<<TokenOf(get(s1.ctx, "security_groups.agentcore.id", None))>>)
                 ELSE None
             s2 == Call(s1, "create_agentcore_runtime",
                        IF rt.networkMode = None THEN Obj("PUBLIC") ELSE rt.networkMode,
                        security_group_ids, {})
             s3 == Set(s2, RuntimeArnKey(rt.name), Obj(RuntimeArn(rt.name)))
             s4 == Export(s3, RuntimeExportKey(rt.name), Obj(RuntimeArn(rt.name)))
             s5 == Export(s4, EcrExportKey(rt.image), Obj(EcrUri(rt.image)))
         IN  AgentcoreRuntimeLoop(s5, Tail(runtimes_config))

\* _grant_s3_access that attaches nothing
agentcore_grant_s3_access_m(st, role, bucket_arns) == st

\* agentcore_runtime.py, _grant_s3_access: one inline RolePolicy on the
\* AgentCore role
agentcore_grant_s3_access(st, role, bucket_arns) ==
    Call(st, "RolePolicy", role, Obj("svc_s3_agentcore_policy"), PolicyResources(bucket_arns))

\* agentcore_runtime.py
agentcore_runtime_handler(section_config, st) ==
    LET s1 == require(st, "iam.agentcore_runtime_role")
        agentcore_role == get(s1.ctx, "iam.agentcore_runtime_role", None)
        s2 == require(s1, "iam.agentcore_memory_role")
        memory_role == get(s2.ctx, "iam.agentcore_memory_role", None)
        s3 == Call(s2, "create_agentcore_memory", memory_role, None, {})
        s4 == Set(s3, "agentcore.memory.id", Obj("memory.memory_id"))
        s5 == Export(s4, "agentcore_memory_id", Obj("memory.memory_id"))
        \* _grant_memory_access
        s6 == Call(s5, "RolePolicy", agentcore_role, Obj("svc_agentcore_memory_policy"),
                   {"memory.memory_arn"})
        bucket_arns == get(s6.ctx, "s3.bucket_arns", None)
        s7 == IF Truthy(bucket_arns)
              THEN agentcore_grant_s3_access(s6, agentcore_role, bucket_arns[2])
              ELSE s6
        s8 == AgentcoreRuntimeLoop(s7, section_config.items)
        task_role == get(s8.ctx, "iam.task_role", None)
    IN  \* _grant_invoke_permission
        IF task_role # None
        THEN Call(s8, "RolePolicy", task_role, Obj("svc_agentcore_invoke_policy"),
                  {"*", "agentcore_role.arn"})
        ELSE s8

\* CAPABILITIES[name].handler(section_config, ctx)
Invoke(fn, section_config, st) ==
    CASE fn = "compute_handler"           -> compute_handler(section_config, st)
      [] fn = "cache_handler"             -> cache_handler(section_config, st)
      [] fn = "storage_handler"           -> storage_handler(section_config, st)
      [] fn = "database_handler"          -> database_handler(section_config, st)
      [] fn = "dynamodb_handler"          -> dynamodb_handler(section_config, st)
      [] fn = "s3_handler"                -> s3_handler(section_config, st)
      [] fn = "service_discovery_handler" -> service_discovery_handler(section_config, st)
      [] fn = "lambda_handler"            -> lambda_handler(section_config, st)
      [] fn = "agentcore_runtime_handler" -> agentcore_runtime_handler(section_config, st)
      [] fn = "eventbridge_handler"       -> eventbridge_handler(section_config, st)
      [] fn = "triggers_handler"          -> triggers_handler(section_config, st)
      [] fn = "webhook_gateway_handler"   -> webhook_gateway_handler(section_config, st)

\* ------------------------------------------------------------------------
\* config.py
\* ------------------------------------------------------------------------

\* the section names PlatformConfig.spec_sections looks for
sections ==
    << "compute", "storage", "cache", "database", "dynamodb", "serviceDiscovery",
       "lambda", "eventbridge", "s3", "agentcoreRuntime" >>

\* spec_sections without the "is not None" test
spec_sections_m(raw) ==
    [k \in {n \in Range(sections) : n \in DOMAIN raw} |-> raw[k]]

\* PlatformConfig.spec_sections: the declared (present, non-None) sections
spec_sections(raw) ==
    [k \in {n \in Range(sections) : n \in DOMAIN raw /\ ~raw[n].isNone} |-> raw[k]]

\* ------------------------------------------------------------------------
\* Inputs of a run
\* ------------------------------------------------------------------------

\* keys a raw spec may hold: the registered capability names and "access"
RawKeys == DOMAIN CAPABILITIES \cup {"access"}

S3Items ==
    { <<>>,
      <<Item("my-state", "", None)>>,
      <<Item("my-state", "", None), Item("logs", "", None)>> }

DynamoItems ==
    { <<>>,
      <<Item("jobs", "", None)>>,
      <<Item("jobs", "", None), Item("my-events", "", None)>> }

LambdaItems == { <<>>, <<Item("test-fn", "img-a", None)>> }

AgentcoreItems ==
    { <<>>,
      <<Item("agent-a", "img-a", None)>>,
      <<Item("agent-b", "img-a", Obj("VPC"))>> }

ItemsOf(k, s3i, dyi, lai, aci) ==
    CASE k = "s3"               -> s3i
      [] k = "dynamodb"         -> dyi
      [] k = "lambda"           -> lai
      [] k = "agentcoreRuntime" -> aci
      [] OTHER                  -> <<>>

\* fuel of a step: the resource layer raises at its (fuel + 1)-th call of the
\* step, and never raises when the fuel is negative
Fuels == (-1) .. MaxFuel

\* ------------------------------------------------------------------------
\* The run: load, validate requires, Foundation, handlers by phase, publish
\* ------------------------------------------------------------------------

VARIABLES raw_spec, ctx, calls, log, pc, published, error, registry

vars == <<raw_spec, ctx, calls, log, pc, published, error, registry>>

\* the declared sections whose name is registered
ActiveSections(raw) ==
    LET declared == spec_sections(raw)
    IN  [k \in DOMAIN declared \cap DOMAIN CAPABILITIES |-> declared[k]]

Active(raw) == DOMAIN ActiveSections(raw)

\* the requires entries of active capabilities that are not active
Unmet(active) ==
    {<<c, r>> \in active \X RawKeys :
        r \in Range(CAPABILITIES[c].requires) /\ r \notin active}

\* the capabilities whose handler has been invoked in this run
Invoked == {log[i].who : i \in DOMAIN log} \ {"foundation"}

Pending == Active(raw_spec) \ Invoked

\* the subsets of S of at most n elements
AtMost(S, n) == {T \in SUBSET S : Cardinality(T) <= n}

\* the item lists a raw spec gives a declared section
ItemChoices(k) ==
    CASE k = "s3"               -> S3Items
      [] k = "dynamodb"         -> DynamoItems
      [] k = "lambda"           -> LambdaItems
      [] k = "agentcoreRuntime" -> AgentcoreItems
      [] OTHER                  -> {<<>>}

Opt(D, k) == IF k \in D THEN ItemChoices(k) ELSE {<<>>}

\* the raw spec holds at most MaxDeclared keys, at most one of them with a
\* null value
Init ==
    /\ \E K \in AtMost(RawKeys, MaxDeclared) :
       \E N \in {{}} \cup {{k} : k \in K} :
       \E s3i \in Opt(K \ N, "s3"), dyi \in Opt(K \ N, "dynamodb"),
          lai \in Opt(K \ N, "lambda"), aci \in Opt(K \ N, "agentcoreRuntime") :
          raw_spec = [k \in K |->
                         IF k \in N THEN NullSection
                         ELSE Section(ItemsOf(k, s3i, dyi, lai, aci))]
    /\ ctx = NewContext
    /\ calls = <<>>
    /\ log = <<>>
    /\ pc = "validate"
    /\ published = [done |-> FALSE, values |-> EmptyMap]
    /\ error = NoError
    /\ registry = CAPABILITIES

\* step 3: every name an active capability requires is active
Validate ==
    /\ pc = "validate"
    /\ LET unmet == Unmet(Active(raw_spec))
       IN  IF unmet # {}
           THEN /\ pc' = "failed"
                /\ \E u \in unmet :
                     error' = [kind |-> "unmet requirement", key |-> u[2],
                               available |-> <<>>]
           ELSE /\ pc' = "foundation"
                /\ error' = error
    /\ UNCHANGED <<raw_spec, ctx, calls, log, published, registry>>

\* the outcome of a step: the Context and call log as the step left them,
\* and the run aborted by the error the step raised, if any
Finish(st, next) ==
    /\ ctx' = st.ctx
    /\ calls' = st.calls
    /\ log' = Append(log, [who |-> st.who, ok |-> ~Failed(st)])
    /\ error' = st.err
    /\ pc' = IF Failed(st) THEN "failed" ELSE next

\* step 4: the Foundation Provisioner, once
Foundation ==
    /\ pc = "foundation"
    /\ \E fuel \in Fuels :
         Finish(provision_foundation(ActiveSections(raw_spec),
                                     Start(ctx, calls, "foundation", fuel)),
                "handlers")
    /\ UNCHANGED <<raw_spec, published, registry>>

\* step 5: the handler of one active capability of the lowest phase that
\* still has a handler to run
RunHandler(c) ==
    /\ pc = "handlers"
    /\ c \in Pending
    /\ \A d \in Pending : CAPABILITIES[c].phase <= CAPABILITIES[d].phase
    /\ \E fuel \in Fuels :
         Finish(Invoke(CAPABILITIES[c].handler, ActiveSections(raw_spec)[c],
                       Start(ctx, calls, c, fuel)),
                "handlers")
    /\ UNCHANGED <<raw_spec, published, registry>>

\* step 6: publish context.exports
Publish ==
    /\ pc = "handlers"
    /\ Pending = {}
    /\ published' = [done |-> TRUE, values |-> exports(ctx).items]
    /\ pc' = "done"
    /\ UNCHANGED <<raw_spec, ctx, calls, log, error, registry>>

Next ==
    \/ Validate
    \/ Foundation
    \/ \E c \in DOMAIN CAPABILITIES : RunHandler(c)
    \/ Publish

Spec == Init /\ [][Next]_vars

\* ------------------------------------------------------------------------
\* provision_foundation called on its own with any mapping of sections and
\* a fresh Context
\* ------------------------------------------------------------------------

InitFoundation ==
    /\ \E D \in SUBSET RawKeys : raw_spec = [k \in D |-> Section(<<>>)]
    /\ ctx = NewContext
    /\ calls = <<>>
    /\ log = <<>>
    /\ pc = "foundation"
    /\ published = [done |-> FALSE, values |-> EmptyMap]
    /\ error = NoError
    /\ registry = CAPABILITIES

CallFoundation ==
    /\ pc = "foundation"
    /\ \E fuel \in Fuels :
         Finish(provision_foundation(raw_spec, Start(ctx, calls, "foundation", fuel)),
                "returned")
    /\ UNCHANGED <<raw_spec, published, registry>>

NextFoundation == CallFoundation

SpecFoundation == InitFoundation /\ [][NextFoundation]_vars

\* ------------------------------------------------------------------------
\* A Context on its own: set, get, require, export and exports called in any
\* order by a caller who may change the mapping that exports returned; log is
\* the history of the operations, error the error of the last one, and
\* published the mapping the caller holds
\* ------------------------------------------------------------------------

CtxKeys == {"iam.task_role", "security_groups.compute.id", "storage.efs.access_point_arn"}

CtxValues == {None, Obj("v1"), Obj("v2")}

CtxDefaults == {None, Obj("d")}

ExportKeys == {"rds_endpoint", "service_url"}

ExportValues == {Obj("v1"), Obj("v2")}

\* one operation of the history
Op(who, ok, key, value, ret) ==
    [who |-> who, ok |-> ok, key |-> key, value |-> value, ret |-> ret]

InitContext ==
    /\ raw_spec = EmptyMap
    /\ ctx = NewContext
    /\ calls = <<>>
    /\ log = <<>>
    /\ pc = "context"
    /\ published = [done |-> FALSE, values |-> exports(NewContext)]
    /\ error = NoError
    /\ registry = CAPABILITIES

CtxSet(k, v) ==
    /\ Len(log) < MaxOps
    /\ ctx' = set(ctx, k, v)
    /\ log' = Append(log, Op("set", TRUE, k, v, None))
    /\ error' = NoError
    /\ UNCHANGED <<raw_spec, calls, pc, published, registry>>

CtxGet(k, d) ==
    /\ Len(log) < MaxOps
    /\ log' = Append(log, Op("get", TRUE, k, d, get(ctx, k, d)))
    /\ error' = NoError
    /\ UNCHANGED <<raw_spec, ctx, calls, pc, published, registry>>

CtxRequire(k) ==
    /\ Len(log) < MaxOps
    /\ LET st == require(Start(ctx, calls, "require", -1), k)
       IN  /\ ctx' = st.ctx
           /\ error' = st.err
           /\ log' = Append(log, Op("require", ~Failed(st), k, None,
                                    IF Failed(st) THEN None ELSE required(st.ctx, k)))
    /\ UNCHANGED <<raw_spec, calls, pc, published, registry>>

\* a mapping that is the Context's own dict changes with it
CtxExport(k, v) ==
    /\ Len(log) < MaxOps
    /\ ctx' = export(ctx, k, v)
    /\ log' = Append(log, Op("export", TRUE, k, v, None))
    /\ error' = NoError
    /\ published' = IF published.done /\ published.values.alias
                    THEN [published EXCEPT !.values.items = ctx'.exports]
                    ELSE published
    /\ UNCHANGED <<raw_spec, calls, pc, registry>>

CtxExports ==
    /\ Len(log) < MaxOps
    /\ published' = [done |-> TRUE, values |-> exports(ctx)]
    /\ log' = Append(log, Op("exports", TRUE, "", None, None))
    /\ error' = NoError
    /\ UNCHANGED <<raw_spec, ctx, calls, pc, registry>>

\* the mappings one change of the caller makes of a mapping: an entry added
\* or changed, or an entry removed
Mutations(m) ==
    {("out3" :> Obj("extra")) @@ m}
    \cup {(k :> Obj("extra")) @@ m : k \in DOMAIN m}
    \cup {[j \in DOMAIN m \ {k} |-> m[j]] : k \in DOMAIN m}

\* the caller changes the mapping it holds; the change reaches the Context
\* only when that mapping is the Context's own dict
CallerMutates ==
    /\ Len(log) < MaxOps
    /\ published.done
    /\ \E new \in Mutations(published.values.items) :
         /\ published' = [published EXCEPT !.values.items = new]
         /\ ctx' = IF published.values.alias THEN [ctx EXCEPT !.exports = new] ELSE ctx
    /\ log' = Append(log, Op("mutate", TRUE, "", None, None))
    /\ error' = NoError
    /\ UNCHANGED <<raw_spec, calls, pc, registry>>

NextContext ==
    \/ \E k \in CtxKeys, v \in CtxValues : CtxSet(k, v)
    \/ \E k \in CtxKeys, d \in CtxDefaults : CtxGet(k, d)
    \/ \E k \in CtxKeys : CtxRequire(k)
    \/ \E k \in ExportKeys, v \in ExportValues : CtxExport(k, v)
    \/ CtxExports
    \/ CallerMutates

SpecContext == InitContext /\ [][NextContext]_vars

\* ------------------------------------------------------------------------
\* A registry on its own: register applied to any name, phase, requires
\* argument and handler, starting from the empty table; log is the history
\* of the registrations
\* ------------------------------------------------------------------------

RegNames == {"s3", "lambda"}

RegRequires == {Omitted, Given(<<>>), Given(<<"storage">>)}

RegHandlers == {"s3_handler", "lambda_handler"}

InitRegistry ==
    /\ raw_spec = EmptyMap
    /\ ctx = NewContext
    /\ calls = <<>>
    /\ log = <<>>
    /\ pc = "registry"
    /\ published = [done |-> FALSE, values |-> EmptyMap]
    /\ error = NoError
    /\ registry = EmptyMap

\* @register(n, phase=p, requires=r) applied to the function f
Register(n, p, r, f) ==
    /\ Len(log) < MaxRegistrations
    /\ registry' = register(registry, n, p, r, f)
    /\ log' = Append(log, Op("register", TRUE, n,
                             [phase |-> p, requires |-> r, fn |-> f], decorator(f)))
    /\ UNCHANGED <<raw_spec, ctx, calls, pc, published, error>>

NextRegistry ==
    \E n \in RegNames, p \in Phase, r \in RegRequires, f \in RegHandlers :
       Register(n, p, r, f)

SpecRegistry == InitRegistry /\ [][NextRegistry]_vars

\* ------------------------------------------------------------------------
\* A handler on its own: provision_foundation over the sections of a spec,
\* then the handler of one of its registered sections called directly
\* ------------------------------------------------------------------------

\* optional sub-fields given other values than their defaults
CustomFields(k) ==
    CASE k = "cache" ->
           ("nodeType" :> Obj("cache.m5.large")) @@ ("numNodes" :> Obj("3"))
      [] k = "database" ->
           ("dbName" :> Obj("appdb")) @@ ("dbUsername" :> Obj("root"))
           @@ ("instanceClass" :> Obj("db.m5.large")) @@ ("allocatedStorage" :> Obj("100"))
      [] k = "storage" ->
           ("efs" :> Map(("encrypted" :> None) @@ ("lifecycle" :> Obj("AFTER_7_DAYS"))
                         @@ ("accessPoint" :> Map(("path" :> Obj("/mnt")) @@ ("uid" :> Obj("0"))))))
      [] k = "serviceDiscovery" ->
           ("namespace" :> Obj("corp.local"))
      [] OTHER -> EmptyMap

InitHandler ==
    /\ \E K \in AtMost(RawKeys, MaxDeclared) :
       \E F \in {{}} \cup {{k} : k \in K \cap {"cache", "database", "storage", "serviceDiscovery"}} :
       \E s3i \in Opt(K, "s3"), dyi \in Opt(K, "dynamodb"),
          lai \in Opt(K, "lambda"), aci \in Opt(K, "agentcoreRuntime") :
          raw_spec = [k \in K |->
                         SectionWith(ItemsOf(k, s3i, dyi, lai, aci),
                                     IF k \in F THEN CustomFields(k) ELSE EmptyMap)]
    /\ ctx = NewContext
    /\ calls = <<>>
    /\ log = <<>>
    /\ pc = "foundation"
    /\ published = [done |-> FALSE, values |-> EmptyMap]
    /\ error = NoError
    /\ registry = CAPABILITIES

FoundationForHandler ==
    /\ pc = "foundation"
    /\ \E fuel \in Fuels :
         Finish(provision_foundation(raw_spec, Start(ctx, calls, "foundation", fuel)),
                "handler")
    /\ UNCHANGED <<raw_spec, published, registry>>

\* the Context a test of a handler builds by hand in place of Foundation
MakeCtx ==
    /\ pc = "foundation"
    /\ ctx' = set(set(set(ctx, "security_groups.compute.id", Obj("mock_sg")),
                      "iam.lambda_execution_role", Obj("mock_role")),
                  "storage.efs.access_point_arn", Obj("mock_ap"))
    /\ log' = Append(log, [who |-> "make_ctx", ok |-> TRUE])
    /\ pc' = "handler"
    /\ UNCHANGED <<raw_spec, calls, published, error, registry>>

\* ctx._outputs.pop(key, None): the test removes one key of the Context it
\* built before the call
PopKey(k) ==
    /\ pc = "handler"
    /\ Len(log) = 1
    /\ log[1].who = "make_ctx"
    /\ k \in DOMAIN ctx.outputs
    /\ ctx' = [ctx EXCEPT !.outputs = [j \in DOMAIN @ \ {k} |-> @[j]]]
    /\ log' = Append(log, [who |-> "pop", ok |-> TRUE])
    /\ UNCHANGED <<raw_spec, calls, pc, published, error, registry>>

CallHandler(c) ==
    /\ pc = "handler"
    /\ c \in DOMAIN raw_spec
    /\ \E fuel \in Fuels :
         Finish(Invoke(CAPABILITIES[c].handler, raw_spec[c], Start(ctx, calls, c, fuel)),
                "returned")
    /\ UNCHANGED <<raw_spec, published, registry>>

NextHandler ==
    \/ FoundationForHandler
    \/ MakeCtx
    \/ \E k \in Range(KeyOrder) : PopKey(k)
    \/ \E c \in DOMAIN CAPABILITIES : CallHandler(c)

SpecHandler == InitHandler /\ [][NextHandler]_vars

\* ------------------------------------------------------------------------

\* number of invocations of a step in this run
Count(who) == Cardinality({i \in DOMAIN log : log[i].who = who})

\* the run has touched nothing: no step ran, no resource call was made, the
\* Context is empty and nothing is published
Untouched ==
    /\ log = <<>>
    /\ calls = <<>>
    /\ ctx = NewContext
    /\ ~published.done

\* the registered names whose section is in the raw spec with a non-null value
\* and is one of the sections the configuration recognises
DeclaredRegistered ==
    {c \in DOMAIN raw_spec :
        c \in DOMAIN CAPABILITIES /\ c \in Range(sections) /\ ~raw_spec[c].isNone}

\* C1: when an active capability requires a name that is not active (such as
\* lambda declared without storage), the run fails in validation, before
\* Foundation and before any handler: the Context is empty, no resource call
\* was made and no export exists.
C1_PreflightFailsBeforeProvisioning ==
    /\ ( /\ pc # "validate"
         /\ \E c \in DeclaredRegistered :
              \E i \in DOMAIN CAPABILITIES[c].requires :
                 CAPABILITIES[c].requires[i] \notin DeclaredRegistered )
       => (pc = "failed" /\ error.kind = "unmet requirement" /\ Untouched)
    /\ ( /\ pc # "validate"
         /\ "lambda" \in DeclaredRegistered
         /\ "storage" \notin DeclaredRegistered )
       => (pc = "failed" /\ error.kind = "unmet requirement" /\ error.key = "storage"
           /\ Untouched)

C1_Witness ==
    /\ pc = "failed"
    /\ "lambda" \in DeclaredRegistered
    /\ "storage" \notin DeclaredRegistered
    /\ error.kind = "unmet requirement"

\* the capabilities of the INFRASTRUCTURE phase and of the COMPUTE phase
InfrastructureNames ==
    {"cache", "storage", "database", "dynamodb", "s3", "serviceDiscovery"}

ComputeNames ==
    {"compute", "lambda", "agentcoreRuntime", "eventbridge", "triggers", "webhookGateway"}

\* C2: Foundation runs once, first, and completes before any handler is
\* invoked; a handler starts only when every step before it has completed;
\* handlers run in ascending phase order, every INFRASTRUCTURE handler before
\* any COMPUTE handler.
C2_PhaseOrdering ==
    /\ \A i \in DOMAIN log : (log[i].who = "foundation") <=> (i = 1)
    /\ pc \in {"handlers", "done"} => (Len(log) >= 1 /\ log[1].ok)
    /\ \A i \in DOMAIN log : i < Len(log) => log[i].ok
    /\ \A i, j \in DOMAIN log :
         (1 < i /\ i < j) =>
            /\ CAPABILITIES[log[i].who].phase <= CAPABILITIES[log[j].who].phase
            /\ ~(log[i].who \in ComputeNames /\ log[j].who \in InfrastructureNames)
    /\ \A i \in DOMAIN log :
         i > 1 => log[i].who \in InfrastructureNames \cup ComputeNames

C2_Witness ==
    /\ pc = "done"
    /\ Len(log) = 4
    /\ log[2].who \in InfrastructureNames
    /\ log[3].who \in InfrastructureNames
    /\ log[4].who = "lambda"

C4_PublishOnlyAfterCleanRun ==
    /\ published.done =>
         /\ pc = "done"
         /\ error = NoError
         /\ log # <<>>
         /\ \A i \in DOMAIN log : log[i].ok
         /\ \A i \in DOMAIN calls : ~calls[i].raised
         /\ DeclaredRegistered \subseteq Invoked
    /\ (pc = "failed" \/ error # NoError \/ \E i \in DOMAIN calls : calls[i].raised)
         => (~published.done /\ published.values = EmptyMap)

C4_Witness ==
    /\ pc = "failed"
    /\ DOMAIN ctx.exports # {}
    /\ ~published.done
    /\ \E i \in DOMAIN calls : calls[i].raised

\* C5: the first error raised by Foundation or a handler aborts the run: the
\* raising call is the last call made, the step that made it is the last
\* step invoked, the run has failed with that very error, and nothing is
\* published.
C5_FailFast ==
    /\ \A i \in DOMAIN calls :
         calls[i].raised =>
            /\ i = Len(calls)
            /\ pc = "failed"
            /\ error.kind = "provisioning"
            /\ error.key = calls[i].fn
            /\ log # <<>>
            /\ log[Len(log)].who = calls[i].by
            /\ ~log[Len(log)].ok
    /\ \A i \in DOMAIN log :
         ~log[i].ok => (i = Len(log) /\ pc = "failed" /\ error # NoError)
    /\ pc = "failed" => (error # NoError /\ ~published.done)

C5_Witness ==
    /\ pc = "failed"
    /\ Len(log) = 2
    /\ ~log[2].ok
    /\ Pending # {}
    /\ calls # <<>>
    /\ calls[Len(calls)].raised

\* ------------------------------------------------------------------------
\* Properties of Foundation
\* ------------------------------------------------------------------------

\* the keys the decision table gives the declared set D
FoundationKeys(D) ==
    (IF "compute" \in D \/ "lambda" \in D
     THEN {"security_groups.compute", "security_groups.compute.id"} ELSE {})
    \cup (IF "database" \in D \/ "cache" \in D \/ "storage" \in D
          THEN {"security_groups.agent.id"} ELSE {})
    \cup (IF "database" \in D \/ "cache" \in D
          THEN {"security_groups.database.id"} ELSE {})
    \cup (IF "storage" \in D THEN {"security_groups.efs.id"} ELSE {})
    \cup (IF "compute" \in D THEN {"iam.task_role", "iam.exec_role"} ELSE {})
    \cup (IF "lambda" \in D THEN {"iam.lambda_execution_role"} ELSE {})
    \cup (IF "agentcoreRuntime" \in D
          THEN {"iam.agentcore_runtime_role", "iam.agentcore_memory_role"} ELSE {})

\* the calls made to one resource constructor
CallsOf(fn) == {i \in DOMAIN calls : calls[i].fn = fn}

\* C6: after provision_foundation on an empty Context, the keys of the
\* Context are exactly those of the decision table for the declared set; for
\* {compute} these are the compute security group and the task and exec
\* roles, without the agent and database security group ids.
C6_FoundationDecisionTable ==
    pc = "returned" =>
       /\ DOMAIN ctx.outputs = FoundationKeys(DOMAIN raw_spec)
       /\ DOMAIN raw_spec = {"compute"} =>
             DOMAIN ctx.outputs = {"security_groups.compute", "security_groups.compute.id",
                                   "iam.task_role", "iam.exec_role"}

C6_Witness ==
    /\ pc = "returned"
    /\ DOMAIN raw_spec = {"compute", "lambda", "storage", "agentcoreRuntime", "s3"}
    /\ Cardinality(DOMAIN ctx.outputs) = 9

\* C7: Foundation evaluates each row once, top to bottom: when compute or
\* lambda is declared, the EFS security group call and the database security
\* group call receive as control-plane reference the compute security group
\* id set earlier in the same call, never an absent value.
C7_LaterRowsSeeEarlierKeys ==
    LET D == DOMAIN raw_spec
        seesCompute(fn) ==
            \A i \in CallsOf(fn) :
               /\ calls[i].a1 = Obj("compute_sg.id")
               /\ calls[i].a1 = get(ctx, "security_groups.compute.id", None)
               /\ \E j \in CallsOf("create_ecs_security_group") : j < i
    IN  /\ \A i, j \in DOMAIN calls : calls[i].fn = calls[j].fn => i = j
        /\ ("compute" \in D \/ "lambda" \in D) =>
              /\ seesCompute("create_efs_security_group")
              /\ seesCompute("create_database_security_group")
        /\ (pc = "returned" /\ "storage" \in D) =>
              CallsOf("create_efs_security_group") # {}
        /\ (pc = "returned" /\ ("database" \in D \/ "cache" \in D)) =>
              CallsOf("create_database_security_group") # {}

C7_Witness ==
    /\ pc = "returned"
    /\ {"lambda", "storage", "cache"} \subseteq DOMAIN raw_spec
    /\ "compute" \notin DOMAIN raw_spec
    /\ \E i \in CallsOf("create_efs_security_group") : calls[i].a1 = Obj("compute_sg.id")
    /\ \E i \in CallsOf("create_database_security_group") : calls[i].a1 = Obj("compute_sg.id")

\* C8 as stated: for {database} alone the database security group is built
\* with both the control-plane reference and the agent reference absent.
C8_Original ==
    (pc = "returned" /\ DOMAIN raw_spec = {"database"}) =>
        \A i \in CallsOf("create_database_security_group") :
           calls[i].a1 = None /\ calls[i].a2 = None

\* C8: for {database} alone the database security group is built once, its
\* control-plane reference is absent (no compute security group exists) and
\* its agent reference is the id of the agent security group that Foundation
\* created earlier in the same call.
C8_DatabaseAloneSecurityGroup ==
    (pc = "returned" /\ DOMAIN raw_spec = {"database"}) =>
        /\ Cardinality(CallsOf("create_database_security_group")) = 1
        /\ "security_groups.compute.id" \notin DOMAIN ctx.outputs
        /\ \A i \in CallsOf("create_database_security_group") :
              /\ calls[i].a1 = None
              /\ calls[i].a2 = Obj("agent_sg.id")
              /\ calls[i].a2 = get(ctx, "security_groups.agent.id", None)
              /\ \E j \in CallsOf("create_agent_security_group") : j < i

C8_Witness ==
    /\ pc = "returned"
    /\ DOMAIN raw_spec = {"database"}
    /\ \E i \in CallsOf("create_database_security_group") : calls[i].a2 = Obj("agent_sg.id")

\* ------------------------------------------------------------------------
\* End-to-end runs
\* ------------------------------------------------------------------------

\* C9: in a run whose active set is {database}, validation passes, Foundation
\* sets security_groups.database.id, the require of the database handler
\* never fails, and when the run completes the handler ran once after
\* Foundation, the Context holds database.rds.endpoint and the published
\* exports hold rds_endpoint.
C9_DatabaseEndToEnd ==
    DeclaredRegistered = {"database"} =>
       /\ error.kind \notin {"unmet requirement", "missing required key"}
       /\ (log # <<>> /\ log[1].ok) => "security_groups.database.id" \in DOMAIN ctx.outputs
       /\ \A i \in CallsOf("create_rds_instance") :
             calls[i].a1 = Obj("db_sg.id")
       /\ pc = "done" =>
             /\ log = << [who |-> "foundation", ok |-> TRUE],
                         [who |-> "database", ok |-> TRUE] >>
             /\ Cardinality(CallsOf("create_rds_instance")) = 1
             /\ "database.rds.endpoint" \in DOMAIN ctx.outputs
             /\ "rds_endpoint" \in DOMAIN published.values
             /\ published.values["rds_endpoint"] = Obj("rds_instance.endpoint")

C9_Witness ==
    /\ pc = "done"
    /\ DeclaredRegistered = {"database"}
    /\ "rds_endpoint" \in DOMAIN published.values

\* the s3 section is active alone and configures no bucket
S3AloneNoBuckets ==
    /\ DeclaredRegistered = {"s3"}
    /\ raw_spec["s3"].items = <<>>

\* C10 as stated: with {s3} and zero buckets the handler completes without
\* error, creates no bucket, attaches no IAM policy and exports an empty
\* bucket-name list.
C10_Original ==
    (S3AloneNoBuckets /\ pc = "done") =>
        /\ error = NoError
        /\ CallsOf("create_s3_bucket") = {}
        /\ CallsOf("RolePolicy") = {}
        /\ \E k \in DOMAIN published.values : published.values[k] = List(<<>>)

\* C10: with {s3} and zero buckets the s3 handler completes without error,
\* creates no bucket, attaches no IAM policy and exports nothing: it returns
\* before any export, so the published exports are empty.
C10_S3NoBucketsExportsNothing ==
    S3AloneNoBuckets =>
        /\ \A i \in DOMAIN log : log[i].who = "s3" => log[i].ok
        /\ CallsOf("create_s3_bucket") = {}
        /\ CallsOf("RolePolicy") = {}
        /\ ctx.exports = EmptyMap
        /\ pc = "done" =>
              /\ Count("s3") = 1
              /\ error = NoError
              /\ published.values = EmptyMap

C10_Witness ==
    /\ S3AloneNoBuckets
    /\ pc = "done"
    /\ Count("s3") = 1
    /\ published.done

\* s3 and compute are the active capabilities and a bucket is configured
S3WithCompute ==
    /\ DeclaredRegistered = {"s3", "compute"}
    /\ raw_spec["s3"].items # <<>>

\* the calls one step made to one resource constructor
CallsBy(who, fn) == {i \in CallsOf(fn) : calls[i].by = who}

\* the ARN of the bucket that a create_s3_bucket call created
CreatedBucketArns ==
    {S3Arn(n) : n \in {m \in {"my-state", "logs"} :
        \E i \in CallsBy("s3", "create_s3_bucket") :
            ~calls[i].raised /\ calls[i].a1 = Obj(S3RealName(m))}}

\* C11: with {s3, compute} active and at least one bucket, the s3 handler runs
\* before the compute handler, iam.task_role is in the Context from Foundation
\* when it runs, and once the s3 handler has completed it has attached exactly
\* one IAM policy, to that role, whose resources are the ARNs of the buckets
\* created in that invocation and their object sub-paths and nothing else.
C11_S3PolicyScopedToOwnBuckets ==
    S3WithCompute =>
       /\ (log # <<>> /\ log[1].ok) =>
             get(ctx, "iam.task_role", None) = Obj("task_role")
       /\ \A i, j \in DOMAIN log :
             (log[i].who = "s3" /\ log[j].who = "compute") => i < j
       /\ Cardinality(CallsBy("s3", "RolePolicy")) <= 1
       /\ (\E i \in DOMAIN log : log[i].who = "s3" /\ log[i].ok) =>
             /\ Cardinality(CallsBy("s3", "RolePolicy")) = 1
             /\ Cardinality(CreatedBucketArns) = Len(raw_spec["s3"].items)
             /\ \A i \in CallsBy("s3", "RolePolicy") :
                   /\ calls[i].a1 = Obj("task_role")
                   /\ calls[i].res =
                         CreatedBucketArns \cup {SubPath(a) : a \in CreatedBucketArns}
                   /\ \A j \in CallsBy("s3", "create_s3_bucket") : j < i

C11_Witness ==
    /\ S3WithCompute
    /\ pc = "done"
    /\ Len(raw_spec["s3"].items) = 2
    /\ \E i \in CallsBy("s3", "RolePolicy") : Cardinality(calls[i].res) = 4

\* ------------------------------------------------------------------------
\* Properties of the Context
\* ------------------------------------------------------------------------

\* the last value each key was given by the operations `who` of a history
RECURSIVE LastWrites(_, _)
LastWrites(h, who) ==
    IF h = <<>> THEN EmptyMap
    ELSE LET r == h[Len(h)]
             rest == LastWrites(SubSeq(h, 1, Len(h) - 1), who)
         IN  IF r.who = who THEN (r.key :> r.value) @@ rest ELSE rest

\* the history before its i-th operation
Before(i) == SubSeq(log, 1, i - 1)

\* position of a key in Python's string order
Pos(k) == CHOOSE p \in DOMAIN KeyOrder : KeyOrder[p] = k

\* listing names exactly the keys of S in ascending order, or is the "(none)"
\* marker when S is empty
ListsSorted(listing, S) ==
    IF S = {} THEN listing = <<"(none)">>
    ELSE /\ Len(listing) = Cardinality(S)
         /\ Range(listing) = S
         /\ \A i, j \in DOMAIN listing : i < j => Pos(listing[i]) < Pos(listing[j])

\* C12: require(k) on a Context whose outputs do not contain k raises the
\* missing-key error, whose message holds k and the known keys in sorted
\* order, or the "(none)" marker when there is none; the failing call changes
\* neither the outputs nor the exports.
C12_RequireMissingKey ==
    /\ \A i \in DOMAIN log :
          (log[i].who = "require" /\ log[i].key \notin DOMAIN LastWrites(Before(i), "set"))
             => ~log[i].ok
    /\ (log # <<>> /\ log[Len(log)].who = "require" /\ ~log[Len(log)].ok) =>
          /\ error.kind = "missing required key"
          /\ error.key = log[Len(log)].key
          /\ ListsSorted(error.available, DOMAIN LastWrites(log, "set"))
          /\ ctx.outputs = LastWrites(log, "set")
          /\ ctx.exports = LastWrites(log, "export")

C12_Witness ==
    /\ Len(log) = 3
    /\ log[1].who = "set"
    /\ log[1].key = "security_groups.compute.id"
    /\ log[2].who = "set"
    /\ log[2].key = "iam.task_role"
    /\ log[3].who = "require"
    /\ ~log[3].ok
    /\ error.key = "storage.efs.access_point_arn"
    /\ error.available = <<"iam.task_role", "security_groups.compute.id">>

\* C13: get(k, d) returns d when k was never set and otherwise the value of
\* the most recent set(k, _), whatever set and export calls came before;
\* require(k) returns that same most recent value, without error, whenever k
\* has been set.
C13_ReadAfterWrite ==
    \A i \in DOMAIN log :
       LET written == LastWrites(Before(i), "set")
           r == log[i]
       IN  /\ r.who = "get" =>
                r.ret = IF r.key \in DOMAIN written THEN written[r.key] ELSE r.value
           /\ (r.who = "require" /\ r.key \in DOMAIN written) =>
                (r.ok /\ r.ret = written[r.key])

C13_Witness ==
    /\ Len(log) = 3
    /\ log[1] = Op("set", TRUE, "iam.task_role", Obj("v1"), None)
    /\ log[2] = Op("set", TRUE, "iam.task_role", None, None)
    /\ log[3] = Op("get", TRUE, "iam.task_role", Obj("d"), None)

\* C14: exports returns a snapshot: the export map of the Context always
\* holds exactly the last value given to each key by export(), whatever the
\* caller adds to, changes in or removes from a mapping that exports
\* returned, and every call of exports returns exactly those entries.
C14_ExportsSnapshot ==
    /\ ctx.exports = LastWrites(log, "export")
    /\ (log # <<>> /\ log[Len(log)].who = "exports") =>
          published.values.items = LastWrites(log, "export")

C14_Witness ==
    /\ Len(log) = 3
    /\ log[1].who = "export"
    /\ log[2].who = "exports"
    /\ log[3].who = "mutate"
    /\ published.values.items # ctx.exports
    /\ DOMAIN ctx.exports = {"rds_endpoint"}

\* ------------------------------------------------------------------------
\* Properties of the registry
\* ------------------------------------------------------------------------

\* the requires list a registration asks for
RequiresOf(r) ==
    CASE r = Omitted              -> <<>>
      [] r = Given(<<>>)          -> <<>>
      [] r = Given(<<"storage">>) -> <<"storage">>

\* the entry a registration asks for
EntryOf(v) == [handler |-> v.fn, phase |-> v.phase, requires |-> RequiresOf(v.requires)]

\* C15: after register(n, p, r) is applied to a handler f, the entry of n in
\* the registry has handler f, phase p and requires r (the empty list when
\* requires is omitted); the registration returns f and does not invoke it.
C15_RegistryRoundTrip ==
    log # <<>> =>
       LET r == log[Len(log)]
       IN  /\ r.key \in DOMAIN registry
           /\ registry[r.key].handler = r.value.fn
           /\ registry[r.key].phase = r.value.phase
           /\ registry[r.key].requires = RequiresOf(r.value.requires)
           /\ r.ret = r.value.fn
           /\ calls = <<>>
           /\ ctx = NewContext

C15_Witness ==
    /\ Len(log) = 1
    /\ log[1].key = "lambda"
    /\ log[1].value = [phase |-> COMPUTE, requires |-> Omitted, fn |-> "lambda_handler"]
    /\ registry["lambda"] = [handler |-> "lambda_handler", phase |-> COMPUTE, requires |-> <<>>]

\* C16: registering a name again is not an error: the registry holds one
\* entry per registered name, that of the most recent registration of the
\* name, and a registration leaves the entries of other names as they were.
C16_LastRegistrationWins ==
    LET last == LastWrites(log, "register")
    IN  /\ \A i \in DOMAIN log : log[i].ok
        /\ DOMAIN registry = DOMAIN last
        /\ \A n \in DOMAIN registry : registry[n] = EntryOf(last[n])

C16_Witness ==
    /\ Len(log) = 2
    /\ log[1].key = log[2].key
    /\ EntryOf(log[1].value) # EntryOf(log[2].value)
    /\ registry[log[2].key] = EntryOf(log[2].value)

\* ------------------------------------------------------------------------
\* Properties of the configuration and of the reference registry
\* ------------------------------------------------------------------------

\* C17 as stated: the declared set computed by spec_sections holds a
\* capability section name exactly when the raw spec holds that name with a
\* non-null value (a null section is as an absent one), and gives a declared
\* name its raw sub-document.
C17_DeclaredIffPresentNonNull ==
    pc # "validate" =>
       LET declared == spec_sections(raw_spec)
       IN  \A n \in DOMAIN CAPABILITIES :
              /\ (n \in DOMAIN declared) <=> (n \in DOMAIN raw_spec /\ ~raw_spec[n].isNone)
              /\ n \in DOMAIN declared => declared[n] = raw_spec[n]

\* C18: the phases are the integers 0, 1, 2, 3 in the order FOUNDATION,
\* INFRASTRUCTURE, COMPUTE, NETWORKING, every capability of the reference
\* registry is registered in a phase above FOUNDATION, and so is every
\* handler a run invokes.
C18_PhasesOrderedNoFoundationHandler ==
    /\ <<FOUNDATION, INFRASTRUCTURE, COMPUTE, NETWORKING>> = <<0, 1, 2, 3>>
    /\ FOUNDATION < INFRASTRUCTURE
    /\ INFRASTRUCTURE < COMPUTE
    /\ COMPUTE < NETWORKING
    /\ \A c \in DOMAIN registry :
          registry[c].phase \in Phase /\ registry[c].phase > FOUNDATION
    /\ \A i \in DOMAIN log :
          i > 1 => registry[log[i].who].phase > FOUNDATION

C18_Witness ==
    /\ pc = "done"
    /\ Cardinality(DOMAIN registry) = 12
    /\ \E i, j \in DOMAIN log \ {1} :
          registry[log[i].who].phase = INFRASTRUCTURE /\ registry[log[j].who].phase = COMPUTE

\* ------------------------------------------------------------------------
\* Properties of a handler on its own
\* ------------------------------------------------------------------------

\* the handler of c was called with the empty mapping as section_config,
\* after Foundation ran over sections that hold everything c requires
CalledWithEmptySection(c) ==
    /\ Len(log) = 2
    /\ log[1].who = "foundation"
    /\ log[2].who = c
    /\ raw_spec[c] = Section(<<>>)
    /\ Range(CAPABILITIES[c].requires) \subseteq DOMAIN raw_spec

\* C19: every registered handler tolerates the empty section_config: called
\* with it, the handler raises nothing of its own (only a failure of the
\* resource layer can stop it); the optional sub-fields take their defaults;
\* s3, dynamodb and lambda create no resource and complete.
C19_EmptySectionTolerated ==
    \A c \in DOMAIN CAPABILITIES :
       CalledWithEmptySection(c) =>
          /\ log[2].ok \/ error.kind = "provisioning"
          /\ c \in {"s3", "dynamodb", "lambda"} =>
                (log[2].ok /\ \A i \in DOMAIN calls : calls[i].by # c)
          /\ \A i \in CallsBy(c, "create_redis_cluster") :
                calls[i].res = { <<"node_type", Obj("cache.t3.micro")>>,
                                 <<"num_cache_clusters", Obj("1")>> }
          /\ \A i \in CallsBy(c, "create_rds_instance") :
                calls[i].res = { <<"db_name", Obj("svc_db")>>,
                                 <<"db_username", Obj("admin")>>,
                                 <<"instance_class", Obj("db.t3.micro")>>,
                                 <<"allocated_storage", Obj("20")>> }
          /\ \A i \in CallsBy(c, "create_efs_filesystem") :
                calls[i].res = { <<"encrypted", True>>,
                                 <<"lifecycle_policy", Obj("AFTER_30_DAYS")>>,
                                 <<"access_point_path", Obj("/data")>>,
                                 <<"posix_uid", Obj("1000")>>,
                                 <<"posix_gid", Obj("1000")>> }
          /\ \A i \in CallsBy(c, "create_service_discovery") :
                calls[i].a1 = Obj("svc.local")

C19_Witness ==
    /\ pc = "returned"
    /\ CalledWithEmptySection("serviceDiscovery")
    /\ DOMAIN raw_spec = {"serviceDiscovery", "lambda", "storage"}
    /\ log[2].ok
    /\ \E i \in CallsBy("serviceDiscovery", "create_service_discovery") :
          calls[i].a1 = Obj("svc.local")

\* ------------------------------------------------------------------------
\* Order of the handlers of one phase
\* ------------------------------------------------------------------------

\* the handlers of the active capabilities of phase p, run one after the
\* other in the order of regs, with a resource layer that never raises
RECURSIVE RunPhase(_, _, _, _)
RunPhase(regs, p, active, st) ==
    IF regs = <<>> THEN st
    ELSE LET r == Head(regs)
         IN  IF r.name \in DOMAIN active /\ CAPABILITIES[r.name].phase = p
             THEN RunPhase(Tail(regs), p, active,
                           Invoke(CAPABILITIES[r.name].handler, active[r.name],
                                  [st EXCEPT !.who = r.name]))
             ELSE RunPhase(Tail(regs), p, active, st)

\* the run of a raw spec that takes the handlers of each phase in the order
\* of their registration
RegistrationOrderRun(raw) ==
    LET active == ActiveSections(raw)
        f == provision_foundation(active, Start(NewContext, <<>>, "foundation", -1))
        i == RunPhase(Registrations, INFRASTRUCTURE, active, f)
        c == RunPhase(Registrations, COMPUTE, active, i)
    IN  RunPhase(Registrations, NETWORKING, active, c)

\* C20: no handler relies on the order of the handlers of its phase: in
\* whatever order the run takes them, no handler fails on a key a sibling
\* has yet to write (a step fails only when the resource layer raises), and
\* a completed run ends with the same Context and has made the same resource
\* calls, with the same arguments, as the run in registration order.
C20_SiblingOrderIrrelevant ==
    /\ error.kind \in {"none", "unmet requirement", "provisioning"}
    /\ pc = "done" =>
          LET reference == RegistrationOrderRun(raw_spec)
          IN  /\ ~Failed(reference)
              /\ DOMAIN ctx.outputs = DOMAIN reference.ctx.outputs
              /\ ctx = reference.ctx
              /\ Range(calls) = Range(reference.calls)
              /\ Len(calls) = Len(reference.calls)

C20_Witness ==
    /\ pc = "done"
    /\ \E i, j \in DOMAIN log :
          i < j /\ log[i].who = "agentcoreRuntime" /\ log[j].who = "compute"
    /\ \E k \in DOMAIN log : log[k].who = "s3"
    /\ raw_spec["s3"].items # <<>>

\* ------------------------------------------------------------------------
\* Keys the handlers require
\* ------------------------------------------------------------------------

\* the keys the handler of c passes to ctx.require when it is called with
\* section_config
RequiredKeys(c, section_config) ==
    CASE c = "compute" ->
           {"security_groups.compute", "iam.task_role", "iam.exec_role"}
      [] c \in {"database", "cache"} -> {"security_groups.database.id"}
      [] c = "storage" -> {"security_groups.efs.id"}
      [] c = "lambda" ->
           IF section_config.items = <<>> THEN {}
           ELSE {"security_groups.compute.id", "iam.lambda_execution_role",
                 "storage.efs.access_point_arn"}
      [] c = "agentcoreRuntime" ->
           {"iam.agentcore_runtime_role", "iam.agentcore_memory_role"}
      [] OTHER -> {}

\* the capabilities whose handler the run may invoke next
Runnable ==
    IF pc = "handlers"
    THEN {c \in Pending : \A d \in Pending : CAPABILITIES[c].phase <= CAPABILITIES[d].phase}
    ELSE {}

\* C21: in a run that passed validation no require of a handler fails: the
\* run never stops on a missing required key, and whenever a handler may be
\* invoked next, every key it requires is already in the Context, set by
\* Foundation or by a handler of an earlier phase.
C21_NoRequireFailsAfterPreflight ==
    /\ error.kind # "missing required key"
    /\ \A c \in Runnable : RequiredKeys(c, raw_spec[c]) \subseteq DOMAIN ctx.outputs

C21_Witness ==
    /\ pc = "done"
    /\ DeclaredRegistered = {"lambda", "storage", "compute"}
    /\ raw_spec["lambda"].items # <<>>
    /\ \E i \in CallsBy("lambda", "create_lambda_function") :
          calls[i].a2 = Obj("efs_ap.arn")

\* ------------------------------------------------------------------------
\* Wiring between capabilities
\* ------------------------------------------------------------------------

\* s3 is active with at least one bucket and agentcoreRuntime is active
S3FeedsAgentcore ==
    /\ {"s3", "agentcoreRuntime"} \subseteq DeclaredRegistered
    /\ raw_spec["s3"].items # <<>>

\* the S3 policies the agentcoreRuntime handler attached
AgentcoreS3Grants ==
    {i \in CallsBy("agentcoreRuntime", "RolePolicy") :
        calls[i].a2 = Obj("svc_s3_agentcore_policy")}

\* C22: when s3 (with at least one bucket) and agentcoreRuntime are both
\* active, the s3 handler runs before the agentcoreRuntime handler and
\* s3.bucket_arns holds the ARNs of the buckets when that handler may start,
\* so the agentcoreRuntime handler, once completed, has granted S3 access
\* to the AgentCore role exactly once, on those ARNs and their sub-paths;
\* when s3 is not active or has no bucket it grants no S3 access.
C22_S3ToAgentcoreOrderSafe ==
    LET grants == AgentcoreS3Grants
    IN  IF ~S3FeedsAgentcore THEN grants = {}
        ELSE LET arns == S3Arns(Names(raw_spec["s3"].items))
             IN  /\ Cardinality(grants) <= 1
                 /\ \A i, j \in DOMAIN log :
                       (log[i].who = "s3" /\ log[j].who = "agentcoreRuntime") => i < j
                 /\ "agentcoreRuntime" \in Runnable \cup Invoked =>
                       get(ctx, "s3.bucket_arns", None) = List(arns)
                 /\ (\E i \in DOMAIN log : log[i].who = "agentcoreRuntime" /\ log[i].ok) =>
                       /\ Cardinality(grants) = 1
                       /\ \A i \in grants :
                             /\ calls[i].a1 = Obj("agentcore_role")
                             /\ calls[i].res = PolicyResources(arns)
                             /\ \A j \in CallsBy("s3", "create_s3_bucket") : j < i

C22_Witness ==
    /\ pc = "done"
    /\ S3FeedsAgentcore
    /\ Len(raw_spec["s3"].items) = 2
    /\ raw_spec["agentcoreRuntime"].items # <<>>
    /\ \E i \in AgentcoreS3Grants : Cardinality(calls[i].res) = 4

\* the policies the handler of c attached for the ECS task role
TaskRoleGrants(c) ==
    {i \in CallsBy(c, "RolePolicy") :
        calls[i].a2 \in {Obj("svc_s3_task_policy"), Obj("svc_dynamodb_policy")}}

\* the resources the handler of c created and the exports it wrote for its items
ItemsProvisioned(c) ==
    LET names == Range(Names(raw_spec[c].items))
    IN  IF c = "s3"
        THEN /\ Cardinality(CallsBy(c, "create_s3_bucket")) = Cardinality(names)
             /\ {S3ExportKey(n) : n \in names} \subseteq DOMAIN ctx.exports
             /\ {S3ArnKey(n) : n \in names} \subseteq DOMAIN ctx.outputs
        ELSE /\ Cardinality(CallsBy(c, "create_dynamodb_table")) = Cardinality(names)
             /\ {DynamoExportKey(n) : n \in names} \subseteq DOMAIN ctx.exports
             /\ {DynamoArnKey(n) : n \in names} \subseteq DOMAIN ctx.outputs
             /\ "dynamodb_table_names" \in DOMAIN ctx.exports
             /\ ctx.exports["dynamodb_table_names"] = List(Names(raw_spec[c].items))

\* C23: the s3 and dynamodb handlers attach a policy to the ECS task role if
\* and only if iam.task_role is in the Context and at least one bucket or
\* table is configured, and then exactly one, to that role; in a run
\* iam.task_role is in the Context exactly when compute is active; without
\* it the handlers raise nothing of their own and, once completed, have
\* created their resources and written their exports.
C23_TaskRolePolicyIffRoleAndItems ==
    /\ (log # <<>> /\ log[1].ok) =>
          ("iam.task_role" \in DOMAIN ctx.outputs <=> "compute" \in DeclaredRegistered)
    /\ \A c \in {"s3", "dynamodb"} \cap DOMAIN raw_spec :
          LET grants == TaskRoleGrants(c)
              configured == raw_spec[c].items # <<>>
          IN  /\ Cardinality(grants) <= 1
              /\ \A i \in grants :
                    /\ calls[i].a1 = Obj("task_role")
                    /\ calls[i].a1 = get(ctx, "iam.task_role", None)
                    /\ configured
              /\ \A k \in DOMAIN log :
                    log[k].who = c =>
                       /\ log[k].ok \/ error.kind = "provisioning"
                       /\ log[k].ok =>
                             /\ grants # {} <=>
                                   ("iam.task_role" \in DOMAIN ctx.outputs /\ configured)
                             /\ grants # {} <=>
                                   ("compute" \in DeclaredRegistered /\ configured)
                             /\ ItemsProvisioned(c)
    /\ \A c \in {"s3", "dynamodb"} \ DOMAIN raw_spec : TaskRoleGrants(c) = {}

C23_Witness ==
    /\ pc = "done"
    /\ DeclaredRegistered = {"s3", "dynamodb"}
    /\ Len(raw_spec["s3"].items) = 2
    /\ Len(raw_spec["dynamodb"].items) = 2
    /\ TaskRoleGrants("s3") = {}
    /\ TaskRoleGrants("dynamodb") = {}
    /\ Cardinality(CallsBy("dynamodb", "create_dynamodb_table")) = 2
    /\ "s3_bucket_my_state" \in DOMAIN published.values

\* ------------------------------------------------------------------------
\* The lambda handler on a Context that lacks a required key
\* ------------------------------------------------------------------------

\* the keys the lambda handler requires that the Context c does not hold
LambdaLacking(c) ==
    IF "lambda" \in DOMAIN raw_spec
    THEN RequiredKeys("lambda", raw_spec["lambda"]) \ DOMAIN c.outputs
    ELSE {}

\* the step is a call of the lambda handler
LambdaCalled ==
    /\ pc = "handler"
    /\ Len(log') = Len(log) + 1
    /\ log'[Len(log')].who = "lambda"

\* C24: a call of the lambda handler with at least one function on a Context
\* that lacks storage.efs.access_point_arn or another key it requires raises
\* the missing-key error for a lacking key, lists the keys the Context
\* holds, makes no call into the resource layer (no ECR repository, no
\* Lambda function) and leaves the outputs and the exports of the Context
\* as they were.
C24_LambdaRaisesBeforeCreating ==
    [][ (LambdaCalled /\ LambdaLacking(ctx) # {}) =>
           /\ pc' = "failed"
           /\ ~log'[Len(log')].ok
           /\ error'.kind = "missing required key"
           /\ error'.key \in LambdaLacking(ctx)
           /\ error'.available = available(ctx)
           /\ calls' = calls
           /\ ctx' = ctx
           /\ ctx'.exports = EmptyMap ]_vars

C24_Witness ==
    /\ pc = "failed"
    /\ Len(log) = 3
    /\ log[1].who = "make_ctx"
    /\ log[2].who = "pop"
    /\ log[3] = [who |-> "lambda", ok |-> FALSE]
    /\ error.kind = "missing required key"
    /\ error.key = "storage.efs.access_point_arn"
    /\ error.available = <<"iam.lambda_execution_role", "security_groups.compute.id">>
    /\ calls = <<>>
    /\ ctx.exports = EmptyMap

\* ------------------------------------------------------------------------
\* Shared resources of Foundation
\* ------------------------------------------------------------------------

\* the constructors the decision table calls for the declared set D
FoundationCreates(D) ==
    (IF "compute" \in D \/ "lambda" \in D THEN {"create_ecs_security_group"} ELSE {})
    \cup (IF "database" \in D \/ "cache" \in D \/ "storage" \in D
          THEN {"create_agent_security_group"} ELSE {})
    \cup (IF "database" \in D \/ "cache" \in D
          THEN {"create_database_security_group"} ELSE {})
    \cup (IF "storage" \in D THEN {"create_efs_security_group"} ELSE {})
    \cup (IF "compute" \in D THEN {"create_task_roles"} ELSE {})
    \cup (IF "lambda" \in D THEN {"create_lambda_execution_role"} ELSE {})
    \cup (IF "agentcoreRuntime" \in D
          THEN {"create_agentcore_runtime_role", "create_agentcore_memory_role"} ELSE {})

\* the constructors of the shared resources
FoundationConstructors == FoundationCreates(DOMAIN CAPABILITIES)

\* C25: Foundation creates each shared resource (compute, agent, database
\* and EFS security group, task role pair, lambda role, each AgentCore role)
\* at most once, however many declared capabilities need it: no constructor
\* is called twice, and a completed call has created exactly one of each
\* resource the declared set needs and none of the others, so that database
\* with cache gives one database security group and compute with lambda one
\* compute security group.
C25_SharedResourcesAtMostOnce ==
    /\ \A i \in DOMAIN calls : calls[i].fn \in FoundationConstructors
    /\ \A fn \in FoundationConstructors : Cardinality(CallsOf(fn)) <= 1
    /\ pc = "returned" =>
          /\ \A fn \in FoundationConstructors :
                Cardinality(CallsOf(fn)) =
                   IF fn \in FoundationCreates(DOMAIN raw_spec) THEN 1 ELSE 0
          /\ Len(calls) = Cardinality(FoundationCreates(DOMAIN raw_spec))
          /\ {"database", "cache"} \subseteq DOMAIN raw_spec =>
                Cardinality(CallsOf("create_database_security_group")) = 1
          /\ {"compute", "lambda"} \subseteq DOMAIN raw_spec =>
                Cardinality(CallsOf("create_ecs_security_group")) = 1

C25_Witness ==
    /\ pc = "returned"
    /\ {"database", "cache", "compute", "lambda", "storage"} \subseteq DOMAIN raw_spec
    /\ Cardinality(CallsOf("create_database_security_group")) = 1
    /\ Cardinality(CallsOf("create_ecs_security_group")) = 1
    /\ Cardinality(CallsOf("create_agent_security_group")) = 1

\* ------------------------------------------------------------------------
\* Export keys of the handlers
\* ------------------------------------------------------------------------

\* the export keys the handler of d writes when it is called with its section
\* on the outputs of the Context and nothing in the resource layer raises
WrittenExports(d) ==
    DOMAIN Invoke(CAPABILITIES[d].handler, raw_spec[d],
                  Start([outputs |-> ctx.outputs, exports |-> EmptyMap],
                        <<>>, d, -1)).ctx.exports

\* C26 as stated: export keys are disjoint across capabilities: the export
\* keys a completed handler has written are keys that the handler of no
\* other registered capability of the spec writes, so no export is
\* overwritten by another handler.
C26_ExportKeysDisjoint ==
    (pc = "returned" /\ Len(log) = 2 /\ log[1].who = "foundation" /\ log[2].ok) =>
        \A d \in (DOMAIN raw_spec \cap DOMAIN CAPABILITIES) \ {log[2].who} :
           DOMAIN ctx.exports \cap WrittenExports(d) = {}

\* ------------------------------------------------------------------------
\* Reachability of the registered handlers
\* ------------------------------------------------------------------------

\* C27 as stated: every registered capability can become active: a raw spec
\* that holds the section of a registered name (webhookGateway and triggers
\* included) with a non-null value makes that name active, and a completed
\* run has invoked its handler.
C27_EveryRegisteredCanBecomeActive ==
    \A n \in DOMAIN registry :
       (pc # "validate" /\ n \in DOMAIN raw_spec /\ ~raw_spec[n].isNone) =>
          /\ n \in Active(raw_spec)
          /\ pc = "done" => n \in Invoked

\* ------------------------------------------------------------------------
\* The requires edges of the reference registry
\* ------------------------------------------------------------------------

\* C28: in the reference registry every requires edge points to the same or
\* an earlier phase: each required name is registered, in a phase not after
\* that of the capability requiring it; and in a run a handler is invoked
\* only after the handler of every capability it requires has completed.
C28_RequiresPointToEarlierPhase ==
    /\ \A c \in DOMAIN registry :
          \A k \in DOMAIN registry[c].requires :
             LET r == registry[c].requires[k]
             IN  r \in DOMAIN registry /\ registry[r].phase <= registry[c].phase
    /\ \A i \in DOMAIN log \ {1} :
          \A k \in DOMAIN registry[log[i].who].requires :
             \E j \in DOMAIN log :
                j < i /\ log[j].who = registry[log[i].who].requires[k] /\ log[j].ok

C28_Witness ==
    /\ pc = "done"
    /\ registry["lambda"].requires = <<"storage">>
    /\ registry["storage"].phase < registry["lambda"].phase
    /\ \E i, j \in DOMAIN log :
          i < j /\ log[i].who = "storage" /\ log[i].ok /\ log[j].who = "lambda" /\ log[j].ok

\* ------------------------------------------------------------------------
\* The security groups of a runtime in VPC mode
\* ------------------------------------------------------------------------

\* C29 as stated: when the agentcoreRuntime handler provisions a runtime with
\* networkMode VPC, security_groups.agentcore.id has been set by Foundation
\* or by an earlier handler, and the security group list passed to the
\* runtime constructor holds no absent value.
C29_AgentcoreSecurityGroupSet ==
    \A i \in CallsBy("agentcoreRuntime", "create_agentcore_runtime") :
       calls[i].a1 = Obj("VPC") =>
          /\ "security_groups.agentcore.id" \in DOMAIN ctx.outputs
          /\ calls[i].a2 # None
          /\ "None" \notin Range(calls[i].a2[2])

\* ------------------------------------------------------------------------
\* Growth of the Context
\* ------------------------------------------------------------------------

\* C30: the Context only grows during a run: no step of Foundation or of a
\* handler removes a key from the outputs map or from the exports map, so a
\* key found once is found for the rest of the run; Foundation writes no
\* export; and on every Context of a run set keeps the keys of the outputs
\* and leaves the exports map as it is, while export keeps the keys of the
\* exports and leaves the outputs map as it is.
C30_ContextOnlyGrows ==
    [][ /\ DOMAIN ctx.outputs \subseteq DOMAIN ctx'.outputs
        /\ DOMAIN ctx.exports \subseteq DOMAIN ctx'.exports
        /\ pc = "foundation" => (ctx.exports = EmptyMap /\ ctx'.exports = EmptyMap)
        /\ \A k \in CtxKeys :
              LET c == set(ctx', k, None)
              IN  c.exports = ctx'.exports /\ DOMAIN c.outputs = DOMAIN ctx'.outputs \cup {k}
        /\ \A k \in ExportKeys :
              LET c == export(ctx', k, None)
              IN  c.outputs = ctx'.outputs /\ DOMAIN c.exports = DOMAIN ctx'.exports \cup {k} ]_vars

C30_Witness ==
    /\ pc = "done"
    /\ Len(log) = 4
    /\ Cardinality(DOMAIN ctx.outputs) >= 8
    /\ Cardinality(DOMAIN ctx.exports) >= 3
    /\ "security_groups.efs.id" \in DOMAIN ctx.outputs
    /\ "storage.efs.access_point_arn" \in DOMAIN ctx.outputs

====
